---- MODULE Spec2Model ----
(***************************************************************************)
(* Model of the run / policy orchestration core of tfc-workflows-tooling   *)
(* (package cloud and the status resolution of package command).           *)
(*                                                                         *)
(* Time is counted in whole seconds.  A Go error is a record               *)
(* [type, msg]: type is the dynamic type the command layer switches on,    *)
(* msg the tuple of the parts its message is formatted from.               *)
(***************************************************************************)
EXTENDS Integers, Sequences, FiniteSets, TLC

VARIABLES
    pc,            \* position of the operation: "idle", "poll", "sleep", "done"
    op,            \* the operation in progress
    options,       \* the options the operation was called with
    run,           \* the operation's local run variable (run, applyRun, ...)
    runFlags,      \* flags of the run returned by Runs.Create
    desiredStatus, \* the desired-status slice the loop polls against
    backoff,       \* state of the retry.Backoff of the loop
    ret,           \* what the operation returned: [obj, err, status]
    calls,         \* remote API calls issued so far, in order
    ctxDone,       \* the supplied context has been cancelled
    lastObserved,  \* the object of the most recent successful poll read
    scenPos,       \* how far the statuses read follow the test scenario
    reads,         \* poll reads issued by the retry loop
    lastRead,      \* what the most recent poll read answered
    remote,        \* what the reads before the mutating call reported
    env,           \* the value of TF_MAX_TIMEOUT ("" when unset)
    onceDone,      \* the sync.Once of Timeout() has fired
    timeouts,      \* the values returned by the calls of Timeout(), in order
    wasReset,      \* the once was replaced after the first call of Timeout()
    fnIn,          \* inputs of the status classifier under check
    fnOut,         \* its outputs
    cmd            \* the command that called the operation, and what it reported

vars == <<pc, op, options, run, runFlags, desiredStatus, backoff, ret, calls,
          ctxDone, lastObserved, scenPos, reads, lastRead, remote, env, onceDone, timeouts, wasReset,
          fnIn, fnOut, cmd>>

driverVars == <<pc, op, options, run, runFlags, desiredStatus, backoff, ret,
                calls, ctxDone, lastObserved, scenPos, reads, lastRead,
                remote>>
timeoutVars == <<env, onceDone, timeouts, wasReset>>
fnVars == <<fnIn, fnOut>>

----------------------------------------------------------------------------
\* Bounds of the model.

\* poll reads one operation may issue before the model stops following it
MaxReads == 5
\* calls of Timeout() followed in one process
MaxTimeoutCalls == 3
\* policy evaluations of the task stage a retrieval reads
MaxEvals == 2

----------------------------------------------------------------------------
\* Sequence helpers.

Range(s) == {s[i] : i \in 1..Len(s)}


\* The log of remote calls: each entry is the call's name and whether it
\* succeeded.  Log(names, failed): the calls `names` in order, all answered
\* without error but, if `failed`, the last.
Log(names, failed) ==
    [i \in 1..Len(names) |->
        [name |-> names[i], ok |-> ~(failed /\ i = Len(names))]]

Issued(log, name) == Cardinality({i \in 1..Len(log) : log[i].name = name})

----------------------------------------------------------------------------
\* Run statuses (go-tfe RunStatus values used by the package, and the four
\* the package defines itself).

ForceCancel == "force_canceled"
PrePlanAwaitingDecision == "pre_apply_awaiting_decision"
PostPlanAwaitingDecision == "post_plan_awaiting_decision"
PreApplyAwaitingDecision == "pre_plan_awaiting_decision"

RunStatuses ==
    {"pending", "planning", "planned", "cost_estimated", "policy_checked",
     "policy_override", "policy_soft_failed", "planned_and_finished",
     "planned_and_saved", "post_plan_completed", "apply_queued", "applying",
     "applied", "errored", "canceled", "discarded",
     ForceCancel, PrePlanAwaitingDecision, PostPlanAwaitingDecision,
     PreApplyAwaitingDecision}

DiscardNoopStatus ==
    <<"errored", "canceled", "applied", "planned", "planned_and_finished">>

CancelNoopStatus ==
    <<"errored", "discarded", "applied", "planned", "planned_and_finished",
      "planned_and_saved">>

NoopStatus ==
    <<"errored", "canceled", "discarded", ForceCancel, PrePlanAwaitingDecision,
      PostPlanAwaitingDecision, PreApplyAwaitingDecision>>

----------------------------------------------------------------------------
\* Errors.

NilErr == [type |-> "nil", msg |-> <<>>]

\* an error returned by the go-tfe client (not found, transport, ...)
ApiErr(call) == [type |-> "*tfe.apiError", msg |-> <<call>>]

\* ctx.Err() of a cancelled context
CtxErr == [type |-> "context.Canceled", msg |-> <<"context canceled">>]

\* errors.New / fmt.Errorf without %w
ErrorString(parts) == [type |-> "*errors.errorString", msg |-> parts]

\* fmt.Errorf with %w: the formatted message and the error it wraps
WrapError(parts, wrapped) ==
    [type |-> "*fmt.wrapError", msg |-> parts, wraps |-> wrapped]

\* errors.Is: the error, or an error down its Unwrap chain, is the target
RECURSIVE ErrorsIs(_, _)
ErrorsIs(e, target) ==
    \/ e = target
    \/ "wraps" \in DOMAIN e /\ ErrorsIs(e.wraps, target)

\* err.Error(): the parts of the message joined
RECURSIVE JoinParts(_, _)
JoinParts(parts, i) ==
    IF i > Len(parts) THEN "" ELSE parts[i] \o JoinParts(parts, i + 1)

ErrorText(e) == JoinParts(e.msg, 1)

\* strings.Contains
StringsContains(s, substr) ==
    \E i \in 1..(Len(s) - Len(substr) + 1) :
        SubSeq(s, i, i + Len(substr) - 1) = substr

ErrInvalidRunID == ErrorString(<<"invalid run ID format">>)

ErrInvalidJustification == ErrorString(<<"invalid justification">>)

ErrInvalidRunStatus == ErrorString(<<"run status does not allow this operation">>)

ErrNoPolicyCheck == ErrorString(<<"run has no policy evaluation">>)

newRetryTimeoutError(operation) ==
    [type |-> "*cloud.RetryTimeoutError",
     msg  |-> <<operation, " has exceeded maximum timeout">>]

\* what a retry function returns: the error and whether retry.RetryableError
\* wrapped it
Retryable(e) == [retryable |-> TRUE, err |-> e]
Fatal(e) == [retryable |-> FALSE, err |-> e]

\* a timeout error built as a plain formatted error
retryableTimeoutError_Plain(operation) ==
    Retryable(ErrorString(<<operation, " has exceeded maximum timeout">>))

retryableTimeoutError(operation) == Retryable(newRetryTimeoutError(operation))

----------------------------------------------------------------------------
\* Status classifier.

hasCostEstimate(r) == r.costEstimate

hasPolicyChecks(r) == r.policyChecks

\* the desired slice without policy_soft_failed in the shared statuses
getDesiredRunStatus_NoSoftFailed(r, policyChecksEnabled, costEstimateEnabled) ==
    LET base == <<"planned_and_finished", "applied">>
        d1 == IF r.savePlan THEN Append(base, "planned_and_saved") ELSE base
    IN  IF r.planOnly THEN d1
        ELSE IF r.autoApply
             THEN IF policyChecksEnabled
                  THEN Append(d1, "policy_override")
                  ELSE d1
        ELSE IF costEstimateEnabled /\ ~policyChecksEnabled
             THEN Append(d1, "cost_estimated")
        ELSE IF policyChecksEnabled
             THEN d1 \o <<"policy_checked", "policy_override">>
        ELSE Append(d1, "planned")

\* the desired slice with an auto-apply run treated as a confirmable one
getDesiredRunStatus_NoAutoApply(r, policyChecksEnabled, costEstimateEnabled) ==
    LET base == <<"policy_soft_failed", "planned_and_finished", "applied">>
        d1 == IF r.savePlan THEN Append(base, "planned_and_saved") ELSE base
    IN  IF r.planOnly THEN d1
        ELSE IF costEstimateEnabled /\ ~policyChecksEnabled
             THEN Append(d1, "cost_estimated")
        ELSE IF policyChecksEnabled
             THEN d1 \o <<"policy_checked", "policy_override">>
        ELSE Append(d1, "planned")

\* the desired slice with the decision point after the plan taken for an end
\* of a run with policy checks
getDesiredRunStatus_AwaitingDecision(r, policyChecksEnabled, costEstimateEnabled) ==
    LET base == <<"policy_soft_failed", "planned_and_finished", "applied">>
        d1 == IF r.savePlan THEN Append(base, "planned_and_saved") ELSE base
    IN  IF r.planOnly THEN d1
        ELSE IF r.autoApply
             THEN IF policyChecksEnabled
                  THEN Append(d1, "policy_override")
                  ELSE d1
        ELSE IF costEstimateEnabled /\ ~policyChecksEnabled
             THEN Append(d1, "cost_estimated")
        ELSE IF policyChecksEnabled
             THEN d1 \o <<"policy_checked", "policy_override", PostPlanAwaitingDecision>>
        ELSE Append(d1, "planned")

getDesiredRunStatus(r, policyChecksEnabled, costEstimateEnabled) ==
    LET base == <<"policy_soft_failed", "planned_and_finished", "applied">>
        d1 == IF r.savePlan THEN Append(base, "planned_and_saved") ELSE base
    IN  IF r.planOnly THEN d1
        ELSE IF r.autoApply
             THEN IF policyChecksEnabled
                  THEN Append(d1, "policy_override")
                  ELSE d1
        ELSE IF costEstimateEnabled /\ ~policyChecksEnabled
             THEN Append(d1, "cost_estimated")
        ELSE IF policyChecksEnabled
             THEN d1 \o <<"policy_checked", "policy_override">>
        ELSE Append(d1, "planned")

\* the classifier with the noop statuses reported as still pending
isRunComplete_NoopPending(status, desired, noop) ==
    IF \E i \in 1..Len(desired) : status = desired[i]
    THEN [done |-> TRUE, err |-> NilErr]
    ELSE [done |-> FALSE, err |-> NilErr]

isRunComplete(status, desired, noop) ==
    IF \E i \in 1..Len(desired) : status = desired[i]
    THEN [done |-> TRUE, err |-> NilErr]
    ELSE IF \E i \in 1..Len(noop) : status = noop[i]
    THEN [done |-> TRUE,
          err  |-> ErrorString(<<"run has ended with: '", status, "' status">>)]
    ELSE [done |-> FALSE, err |-> NilErr]

\* Meta.resolveStatus: a type switch on the error's dynamic type
resolveStatus(err) ==
    IF err.type # "nil"
    THEN IF err.type = "*cloud.RetryTimeoutError" THEN "Timeout" ELSE "Error"
    ELSE "Success"

----------------------------------------------------------------------------
\* The maximum retry duration and the backoff chains.

defaultTimeoutDuration == 3600

StateVersionOutputMaxDuration == 300

\* Values TF_MAX_TIMEOUT is given: a tuple of characters, <<>> when unset.
EnvValues ==
    {<<>>, <<"5", "s">>, <<"1", "m">>, <<"1", "m", "3", "0", "s">>,
     <<"1", "0">>, <<"x">>}

DigitVal(c) ==
    CASE c = "0" -> 0 [] c = "1" -> 1 [] c = "2" -> 2 [] c = "3" -> 3
      [] c = "4" -> 4 [] c = "5" -> 5 [] c = "6" -> 6 [] c = "7" -> 7
      [] c = "8" -> 8 [] c = "9" -> 9 [] OTHER -> -1

UnitSeconds(c) ==
    CASE c = "s" -> 1 [] c = "m" -> 60 [] c = "h" -> 3600 [] OTHER -> -1

\* time.ParseDuration on whole-second inputs: one or more <digits><unit>
\* groups, or the bare "0"; anything else is an error.
\* i: next character, num: digits read in this group (-1: none), acc: total.
RECURSIVE ParseFrom(_, _, _, _)
ParseFrom(s, i, num, acc) ==
    IF i > Len(s)
    THEN IF num = -1 /\ i > 1
         THEN [ok |-> TRUE, val |-> acc]
         ELSE [ok |-> FALSE, val |-> 0]
    ELSE IF DigitVal(s[i]) >= 0
         THEN ParseFrom(s, i + 1,
                        (IF num = -1 THEN 0 ELSE num) * 10 + DigitVal(s[i]), acc)
         ELSE IF num >= 0 /\ UnitSeconds(s[i]) > 0
              THEN ParseFrom(s, i + 1, -1, acc + num * UnitSeconds(s[i]))
              ELSE [ok |-> FALSE, val |-> 0]

ParseDuration(s) ==
    IF s = <<"0">> THEN [ok |-> TRUE, val |-> 0] ELSE ParseFrom(s, 1, -1, 0)

\* Timeout() without the read of the environment variable
Timeout_AlwaysDefault(done, e) == defaultTimeoutDuration

\* Timeout(): the value returned by a call made when the once is in state
\* `done` and the variable holds `e`.  The local `timeout` starts at the
\* default on every call; only the function run by once.Do assigns it.
Timeout(done, e) ==
    IF done THEN defaultTimeoutDuration
    ELSE IF e = <<>> THEN defaultTimeoutDuration
    ELSE IF ~ParseDuration(e).ok THEN defaultTimeoutDuration
    ELSE ParseDuration(e).val

\* A backoff chain NewFibonacci(base) |> WithCappedDuration(cap) |>
\* WithMaxDuration(max): the Fibonacci state, the cap, and the time left of
\* max (max less the time since the chain was built).
NewBackoff(base, cap, max) ==
    [prev |-> 0, curr |-> base, cap |-> cap, remaining |-> max, wait |-> 0]

defaultBackoff(done, e) == NewBackoff(2, 7, Timeout(done, e))

wServiceBackoff == NewBackoff(2, 7, StateVersionOutputMaxDuration)

\* Backoff.Next() of a chain built without WithMaxDuration: it never stops
BackoffNext_NoMaxDuration(b, left) ==
    LET fib == b.prev + b.curr
        capped == IF fib <= 0 \/ fib > b.cap THEN b.cap ELSE fib
    IN  [stop |-> FALSE,
         b |-> [prev |-> IF fib > b.cap THEN b.prev ELSE b.curr,
                curr |-> IF fib > b.cap THEN b.curr ELSE fib,
                cap |-> b.cap, remaining |-> b.remaining, wait |-> capped]]

\* Backoff.Next() of the chain, `left` seconds of the maximum being left when
\* it is called: stop, or the wait and the new state.  The Fibonacci state is
\* kept once the sum exceeds the cap: every later sum exceeds it too, and the
\* sum that overflows int64 is answered with MaxInt64, which the cap cuts
\* down as well.
BackoffNext(b, left) ==
    IF left <= 0
    THEN [stop |-> TRUE, b |-> [b EXCEPT !.remaining = 0, !.wait = 0]]
    ELSE LET fib == b.prev + b.curr
             capped == IF fib <= 0 \/ fib > b.cap THEN b.cap ELSE fib
             val == IF capped <= 0 \/ capped > left THEN left ELSE capped
         IN  [stop |-> FALSE,
              b |-> [prev |-> IF fib > b.cap THEN b.prev ELSE b.curr,
                     curr |-> IF fib > b.cap THEN b.curr ELSE fib,
                     cap |-> b.cap, remaining |-> left, wait |-> val]]

----------------------------------------------------------------------------
\* Objects the remote API returns: a run, a configuration version or a state
\* version, reduced to its id and its status.  NilObj is the nil pointer.

NilObj == [id |-> "", status |-> ""]

RunObj(status) == [id |-> "run-1", status |-> status]

CvObj(status) == [id |-> "cv-1", status |-> status]

SvObj(status) == [id |-> "sv-1", status |-> status]

SvoList == [id |-> "svo-list", status |-> "outputs"]

ConfigurationStatuses == {"pending", "fetching", "uploaded", "errored"}

StateVersionStatuses == {"unprocessed", "processed"}

RunOps == {"create", "apply", "discard", "cancel"}

\* the flags of a created run the desired set is computed from
RunFlagSets ==
    [planOnly : BOOLEAN, autoApply : BOOLEAN, savePlan : BOOLEAN,
     costEstimate : BOOLEAN, policyChecks : BOOLEAN]

NoFlags ==
    [planOnly |-> FALSE, autoApply |-> FALSE, savePlan |-> FALSE,
     costEstimate |-> FALSE, policyChecks |-> FALSE]

\* options of the operations: PlanOnly and a ConfigurationVersionID for
\* create, ForceCancel for cancel
OptionSets == [planOnly : BOOLEAN, cvGiven : BOOLEAN, forceCancel : BOOLEAN]

NoOptions == [planOnly |-> FALSE, cvGiven |-> FALSE, forceCancel |-> FALSE]

NoRemote == [locked |-> FALSE, cvSpeculative |-> FALSE]

PanicErr == [type |-> "panic", msg |-> <<"nil pointer dereference">>]

\* the status changes of the plan-only and auto-apply cases of the run service
\* tests, and the final statuses they end with
ScenarioChanges == <<"planning", "planning", "cost_estimated", "policy_checked">>

ScenarioFinals == {"planned_and_finished", "applied"}

----------------------------------------------------------------------------
\* The policy service: the override of a failed policy evaluation.

MinJustificationLength == 10

PolicyWaitMaxDuration == 1800

PolicyWaitInitialBackoff == 10

PolicyWaitMaxBackoff == 30

policyWaitBackoffStrategy ==
    NewBackoff(PolicyWaitInitialBackoff, PolicyWaitMaxBackoff, PolicyWaitMaxDuration)

LowerChars ==
    {"a", "b", "c", "d", "e", "f", "g", "h", "i", "j", "k", "l", "m", "n", "o",
     "p", "q", "r", "s", "t", "u", "v", "w", "x", "y", "z"}

UpperChars ==
    {"A", "B", "C", "D", "E", "F", "G", "H", "I", "J", "K", "L", "M", "N", "O",
     "P", "Q", "R", "S", "T", "U", "V", "W", "X", "Y", "Z"}

DigitChars == {"0", "1", "2", "3", "4", "5", "6", "7", "8", "9"}

\* the id pattern with upper-case letters allowed before the hyphen
validIDPattern_AnyCasePrefix(id) ==
    \E k \in 1..Len(id) :
        /\ id[k] = "-"
        /\ k > 1
        /\ k < Len(id)
        /\ \A i \in 1..(k - 1) : id[i] \in LowerChars \cup UpperChars
        /\ \A i \in (k + 1)..Len(id) :
               id[i] \in LowerChars \cup UpperChars \cup DigitChars

\* validIDPattern.MatchString: ^[a-z]+-[a-zA-Z0-9]+$ over a string given as
\* the sequence of its characters
validIDPattern(id) ==
    \E k \in 1..Len(id) :
        /\ id[k] = "-"
        /\ k > 1
        /\ k < Len(id)
        /\ \A i \in 1..(k - 1) : id[i] \in LowerChars
        /\ \A i \in (k + 1)..Len(id) :
               id[i] \in LowerChars \cup UpperChars \cup DigitChars

validStringID(id) == IF id = <<>> THEN FALSE ELSE validIDPattern(id)

\* OverridePolicyOptions.Validate
OverridePolicyOptionsValidate(o) ==
    IF ~validStringID(o.runID) THEN ErrInvalidRunID
    ELSE IF o.justification = <<>> THEN ErrInvalidJustification
    ELSE IF Len(o.justification) < MinJustificationLength
    THEN WrapError(ErrInvalidJustification.msg
                       \o <<": must be at least ", ToString(MinJustificationLength),
                             " characters">>,
                   ErrInvalidJustification)
    ELSE NilErr

\* the run ids and justifications OverridePolicy is called with
RunIDs ==
    {<<>>, <<"r", "u", "n", "-", "1">>, <<"R", "u", "n", "-", "1">>,
     <<"r", "u", "n", "-">>, <<"r", "u", "n", "_", "1">>,
     <<"r", "1", "-", "a">>, <<"r", "u", "n", "-", "1", "-", "2">>}

Justifications ==
    {<<>>, <<"t", "o", "o", " ", "s", "h", "o", "r", "t">>,
     <<"s", "e", "c", " ", "r", "e", "v", "i", "e", "w">>}

OverridePolicyOptionSets == [runID : RunIDs, justification : Justifications]

\* the task stages TaskStages.List answers with, each reduced to its stage
TaskStageLists ==
    {<<>>, <<"post_plan">>, <<"pre_apply">>, <<"pre_apply", "pre_plan">>,
     <<"pre_plan", "post_plan">>, <<"post_plan", "pre_plan">>}

\* validateOverrideEligibility accepting a run at any policy decision point
validateOverrideEligibility_AnyDecision(rd) ==
    IF rd.err
    THEN [run |-> NilObj,
          err |-> WrapError(<<"error reading run: ", "Runs.Read">>, ApiErr("Runs.Read"))]
    ELSE IF rd.status \notin {PostPlanAwaitingDecision, "policy_soft_failed"}
    THEN [run |-> NilObj,
          err |-> WrapError(ErrInvalidRunStatus.msg
                                \o <<": run status is ", rd.status, ", expected ",
                                      "post_plan_awaiting_decision">>,
                            ErrInvalidRunStatus)]
    ELSE [run |-> RunObj(rd.status), err |-> NilErr]

\* validateOverrideEligibility: rd is what Runs.Read answers
validateOverrideEligibility(rd) ==
    IF rd.err
    THEN [run |-> NilObj,
          err |-> WrapError(<<"error reading run: ", "Runs.Read">>, ApiErr("Runs.Read"))]
    ELSE IF rd.status # PostPlanAwaitingDecision
    THEN [run |-> NilObj,
          err |-> WrapError(ErrInvalidRunStatus.msg
                                \o <<": run status is ", rd.status, ", expected ",
                                      "post_plan_awaiting_decision">>,
                            ErrInvalidRunStatus)]
    ELSE [run |-> RunObj(rd.status), err |-> NilErr]

\* addJustificationComment: Comments.Create, appended to the calls cs
addJustificationComment(cs, commentErr) ==
    Append(cs, [name |-> "Comments.Create", ok |-> ~commentErr])

\* the position in the list of the stage the services pick: the first stage
\* that is pre-plan or post-plan, 0 when the list has none
policyStage(stages) ==
    LET found == {i \in 1..Len(stages) : stages[i] \in {"pre_plan", "post_plan"}}
    IN  IF found = {} THEN 0
        ELSE CHOOSE i \in found : \A j \in found : i <= j

\* the id of the stage at position i of the list
TaskStageID(i) == "ts-" \o ToString(i)

\* The outcome of OverridePolicy before its wait, once result carries the id
\* of the stage or of the check the override is sent to: the calls issued, the
\* error it returns with, whether it goes on to waitForOverrideCompletion, and
\* the ids in result.
OverrideSent(cs, err, wait, path, stageID, checkID) ==
    [calls |-> cs, err |-> err, wait |-> wait, path |-> path,
     stageID |-> stageID, checkID |-> checkID]

\* The outcome of OverridePolicy when it returns before an id is set
OverrideOutcome(cs, err, wait, path) == OverrideSent(cs, err, wait, path, "", "")

\* overrideViaTaskStage: the first pre-plan or post-plan stage is overridden
overrideViaTaskStage(cs, stages, w) ==
    IF \A i \in 1..Len(stages) : stages[i] \notin {"pre_plan", "post_plan"}
    THEN OverrideOutcome(cs, ErrNoPolicyCheck, FALSE, "modern")
    ELSE LET c1 == Append(cs, [name |-> "TaskStages.Override", ok |-> ~w.overrideErr])
         IN  IF w.overrideErr
             THEN OverrideSent(c1,
                      WrapError(<<"error overriding task stage: ", "TaskStages.Override">>,
                                ApiErr("TaskStages.Override")),
                      FALSE, "modern", TaskStageID(policyStage(stages)), "")
             ELSE OverrideSent(addJustificationComment(c1, w.commentErr),
                               NilErr, TRUE, "modern",
                               TaskStageID(policyStage(stages)), "")

\* overrideViaPolicyCheck: the first policy check of the run is overridden
overrideViaPolicyCheck(cs, nChecks, w) ==
    IF nChecks = 0
    THEN OverrideOutcome(cs, ErrNoPolicyCheck, FALSE, "legacy")
    ELSE LET c1 == Append(cs, [name |-> "PolicyChecks.Override", ok |-> ~w.overrideErr])
         IN  IF w.overrideErr
             THEN OverrideSent(c1,
                      WrapError(<<"error overriding policy check: ", "PolicyChecks.Override">>,
                                ApiErr("PolicyChecks.Override")),
                      FALSE, "legacy", "", "polchk-1")
             ELSE OverrideSent(addJustificationComment(c1, w.commentErr),
                               NilErr, TRUE, "legacy", "", "polchk-1")

\* OverridePolicy up to its wait.  w: what the remote answers.
OverridePolicyPrefix(o, w) ==
    LET v == OverridePolicyOptionsValidate(o)
        e == validateOverrideEligibility(w.rd)
        c1 == <<[name |-> "Runs.Read", ok |-> ~w.rd.err]>>
        c2 == Append(c1, [name |-> "TaskStages.List", ok |-> ~w.listErr])
        c3 == Append(c2, [name |-> "Runs.ReadWithOptions", ok |-> ~w.read2Err])
    IN  IF v # NilErr THEN OverrideOutcome(<<>>, v, FALSE, "none")
        ELSE IF e.err # NilErr THEN OverrideOutcome(c1, e.err, FALSE, "none")
        ELSE IF ~w.listErr /\ Len(w.stages) > 0
        THEN overrideViaTaskStage(c2, w.stages, w)
        ELSE IF w.read2Err
        THEN OverrideOutcome(c3,
                 WrapError(<<"error reading run for policy checks: ",
                             "Runs.ReadWithOptions">>,
                           ApiErr("Runs.ReadWithOptions")),
                 FALSE, "legacy")
        ELSE IF w.nChecks = 0
        THEN OverrideOutcome(c3, ErrNoPolicyCheck, FALSE, "legacy")
        ELSE overrideViaPolicyCheck(c3, w.nChecks, w)

\* the statuses waitForOverrideCompletion takes for a completed override
OverrideCompleteStatuses == <<"policy_override", "post_plan_completed", "apply_queued">>

\* waitForOverrideCompletion's retry function taking applied for a completed
\* override
waitForOverrideCompletionPoll_AppliedCompletes(rd) ==
    IF rd.err
    THEN [obj |-> NilObj,
          res |-> Fatal(WrapError(<<"error reading run: ", "Runs.Read">>,
                                  ApiErr("Runs.Read")))]
    ELSE [obj |-> RunObj(rd.status),
          res |-> CASE rd.status \in Range(OverrideCompleteStatuses) \cup {"applied"} ->
                         Fatal(NilErr)
                    [] rd.status = "discarded" ->
                         Fatal(ErrorString(<<"run was discarded during override">>))
                    [] rd.status \in {"canceled", "errored"} ->
                         Fatal(ErrorString(<<"run entered terminal state ", rd.status,
                                             " during override">>))
                    [] rd.status = PostPlanAwaitingDecision ->
                         Retryable(ErrorString(<<"override still processing">>))
                    [] OTHER ->
                         Retryable(ErrorString(<<"unexpected status: ", rd.status>>))]

\* waitForOverrideCompletion's retry function: finalRun is assigned what
\* Runs.Read returns
waitForOverrideCompletionPoll(rd) ==
    IF rd.err
    THEN [obj |-> NilObj,
          res |-> Fatal(WrapError(<<"error reading run: ", "Runs.Read">>,
                                  ApiErr("Runs.Read")))]
    ELSE [obj |-> RunObj(rd.status),
          res |-> CASE rd.status \in Range(OverrideCompleteStatuses) -> Fatal(NilErr)
                    [] rd.status = "discarded" ->
                         Fatal(ErrorString(<<"run was discarded during override">>))
                    [] rd.status \in {"canceled", "errored"} ->
                         Fatal(ErrorString(<<"run entered terminal state ", rd.status,
                                             " during override">>))
                    [] rd.status = PostPlanAwaitingDecision ->
                         Retryable(ErrorString(<<"override still processing">>))
                    [] OTHER ->
                         Retryable(ErrorString(<<"unexpected status: ", rd.status>>))]

----------------------------------------------------------------------------
\* The policy service: the retrieval of a policy evaluation.

ErrPolicyPending == ErrorString(<<"policy evaluation still in progress">>)

\* GetPolicyEvaluationOptions.Validate
GetPolicyEvaluationOptionsValidate(o) ==
    IF ~validStringID(o.runID) THEN ErrInvalidRunID ELSE NilErr

GetPolicyEvaluationOptionSets == [runID : RunIDs, noWait : BOOLEAN]

\* isPolicyEvaluationComplete
isPolicyEvaluationComplete(status) ==
    status \in {PostPlanAwaitingDecision, "policy_override", "post_plan_completed",
                "planned_and_finished", "policy_checked", "policy_soft_failed"}

\* waitForPolicyEvaluation's retry function with discarded taken for a status
\* still to wait on
waitForPolicyEvaluationPoll_DiscardedPending(rd) ==
    IF rd.err
    THEN [obj |-> NilObj,
          res |-> Fatal(WrapError(<<"error reading run: ", "Runs.Read">>,
                                  ApiErr("Runs.Read")))]
    ELSE [obj |-> RunObj(rd.status),
          res |-> IF isPolicyEvaluationComplete(rd.status) THEN Fatal(NilErr)
                  ELSE IF rd.status \in {"canceled", "errored"}
                  THEN Fatal(ErrorString(<<"run entered terminal state ", rd.status,
                                           " without policy evaluation">>))
                  ELSE Retryable(ErrorString(<<"policy evaluation still pending">>))]

\* waitForPolicyEvaluation's retry function: finalRun is assigned what
\* Runs.Read returns
waitForPolicyEvaluationPoll(rd) ==
    IF rd.err
    THEN [obj |-> NilObj,
          res |-> Fatal(WrapError(<<"error reading run: ", "Runs.Read">>,
                                  ApiErr("Runs.Read")))]
    ELSE [obj |-> RunObj(rd.status),
          res |-> IF isPolicyEvaluationComplete(rd.status) THEN Fatal(NilErr)
                  ELSE IF rd.status \in {"discarded", "canceled", "errored"}
                  THEN Fatal(ErrorString(<<"run entered terminal state ", rd.status,
                                           " without policy evaluation">>))
                  ELSE Retryable(ErrorString(<<"policy evaluation still pending">>))]

\* a policy detail of a PolicyEvaluation
PolicyDetail(name, level, status, description) ==
    [name |-> name, level |-> level, status |-> status, description |-> description]

\* the outcomes PolicySetOutcomes.List answers with for an evaluation: one
\* policy set, one policy passed and one failed
ListedOutcomes ==
    <<PolicyDetail("allowed-regions", "advisory", "passed", ""),
      PolicyDetail("require-tags", "mandatory", "failed", "tags are missing")>>

\* the policy evaluations of a task stage: ResultCount set or nil, its counts,
\* and whether PolicySetOutcomes.List fails for the evaluation
PolicyEvals ==
    {[rc |-> FALSE, passed |-> 0, advisory |-> 0, mandatory |-> 0, errored |-> 0,
      outcomesErr |-> FALSE]}
    \cup {[rc |-> TRUE, passed |-> 1, advisory |-> 0, mandatory |-> 0, errored |-> 0,
            outcomesErr |-> FALSE]}
    \cup [rc : {TRUE}, passed : {1}, advisory : {1}, mandatory : {0},
          errored : {0}, outcomesErr : BOOLEAN]
    \cup [rc : {TRUE}, passed : {0}, advisory : {0}, mandatory : {2},
          errored : {1}, outcomesErr : BOOLEAN]

\* the policy checks of a run read for the legacy API: none, or the first one
\* with its Result (nil or counts) and status
PolicyCheckResults ==
    [result : {FALSE}, passed : {0}, softFailed : {0}, advisoryFailed : {0},
     hardFailed : {0}, status : {"queued", "errored"}]
    \cup [result : {TRUE}, passed : {1}, softFailed : {0, 1}, advisoryFailed : {0},
          hardFailed : {0, 2}, status : {"hard_failed", "errored"}]

\* a PolicyEvaluation with nothing counted yet, and the calls issued so far
NewPolicyEvaluation(cs, stageID, checkID, status) ==
    [calls |-> cs, runID |-> "run-1", stageID |-> stageID, checkID |-> checkID,
     status |-> status, passed |-> 0, advisory |-> 0, mandatory |-> 0,
     errored |-> 0, total |-> 0, requiresOverride |-> FALSE,
     failedPolicies |-> <<>>]

\* the entry added for evaluation i when its outcomes cannot be listed
GenericFailedEntry(i, ev) ==
    PolicyDetail("policy-eval-" \o "poleval-" \o ToString(i), "mandatory", "failed",
                 ToString(ev.mandatory) \o " mandatory policies failed")

\* the entry the outcomes fetch adds when it fails, given for every failure
FailedFetchEntries_Always(i, ev) == <<GenericFailedEntry(i, ev)>>

\* the entries added when the outcomes of evaluation i cannot be listed
FailedFetchEntries(i, ev) ==
    IF ev.mandatory > 0 THEN <<GenericFailedEntry(i, ev)>> ELSE <<>>

\* getPolicyFromTaskStages: the loop over the policy evaluations, from
\* evaluation i on
RECURSIVE AggregateEvals(_, _, _)
AggregateEvals(evals, i, acc) ==
    IF i > Len(evals) THEN acc
    ELSE LET ev == evals[i]
             a1 == IF ev.rc
                   THEN [acc EXCEPT !.passed = @ + ev.passed,
                                    !.advisory = @ + ev.advisory,
                                    !.mandatory = @ + ev.mandatory,
                                    !.errored = @ + ev.errored]
                   ELSE acc
             a2 == IF ev.rc /\ (ev.mandatory > 0 \/ ev.advisory > 0)
                   THEN [a1 EXCEPT
                           !.calls = Append(@, [name |-> "PolicySetOutcomes.List",
                                                ok |-> ~ev.outcomesErr]),
                           !.failedPolicies =
                               IF ev.outcomesErr
                               THEN @ \o FailedFetchEntries(i, ev)
                               ELSE @ \o SelectSeq(ListedOutcomes,
                                                   LAMBDA d : d.status = "failed")]
                   ELSE a1
         IN  AggregateEvals(evals, i + 1, a2)

\* what a retrieval returns: the calls issued, the result and the error
FetchOutcome(cs, obj, err, path) ==
    [calls |-> cs, obj |-> obj, err |-> err, path |-> path]

\* a PolicyEvaluation as returned: the record without the calls
Returnable(acc) ==
    [runID |-> acc.runID, stageID |-> acc.stageID, checkID |-> acc.checkID,
     status |-> acc.status, passed |-> acc.passed, advisory |-> acc.advisory,
     mandatory |-> acc.mandatory, errored |-> acc.errored, total |-> acc.total,
     requiresOverride |-> acc.requiresOverride,
     failedPolicies |-> acc.failedPolicies]

\* getPolicyFromTaskStages
getPolicyFromTaskStages(cs, stages, stageReadErr, evals) ==
    IF \A i \in 1..Len(stages) : stages[i] \notin {"pre_plan", "post_plan"}
    THEN FetchOutcome(cs, NilObj, ErrNoPolicyCheck, "modern")
    ELSE LET c1 == Append(cs, [name |-> "TaskStages.Read", ok |-> ~stageReadErr])
         IN  IF stageReadErr
             THEN FetchOutcome(c1, NilObj,
                      WrapError(<<"error reading task stage: ", "TaskStages.Read">>,
                                ApiErr("TaskStages.Read")),
                      "modern")
             ELSE LET acc == AggregateEvals(evals, 1,
                                 NewPolicyEvaluation(c1, TaskStageID(policyStage(stages)),
                                                     "", "passed"))
                      tot == acc.passed + acc.advisory + acc.mandatory + acc.errored
                  IN  FetchOutcome(acc.calls,
                          Returnable([acc EXCEPT !.total = tot,
                                                 !.requiresOverride = acc.mandatory > 0]),
                          NilErr, "modern")

\* getPolicyFromPolicyCheck with the total taken before the errored count is
\* known
getPolicyFromPolicyCheck_TotalWithoutErrored(check) ==
    LET r == NewPolicyEvaluation(<<>>, "", "polchk-1", check.status)
    IN  IF ~check.result THEN Returnable(r)
        ELSE LET adv == check.softFailed + check.advisoryFailed
                 err == IF check.status = "errored" THEN 1 ELSE 0
             IN  Returnable(
                     [r EXCEPT
                        !.passed = check.passed,
                        !.advisory = adv,
                        !.mandatory = check.hardFailed,
                        !.errored = err,
                        !.total = check.passed + adv + check.hardFailed,
                        !.requiresOverride = check.hardFailed > 0,
                        !.failedPolicies =
                            IF check.hardFailed > 0
                            THEN <<PolicyDetail("policy-check-" \o "polchk-1",
                                       "mandatory", "failed",
                                       ToString(check.hardFailed)
                                           \o " mandatory policies failed")>>
                            ELSE <<>>])

\* getPolicyFromPolicyCheck
getPolicyFromPolicyCheck(check) ==
    LET r == NewPolicyEvaluation(<<>>, "", "polchk-1", check.status)
    IN  IF ~check.result THEN Returnable(r)
        ELSE LET adv == check.softFailed + check.advisoryFailed
                 err == IF check.status = "errored" THEN 1 ELSE 0
             IN  Returnable(
                     [r EXCEPT
                        !.passed = check.passed,
                        !.advisory = adv,
                        !.mandatory = check.hardFailed,
                        !.errored = err,
                        !.total = check.passed + adv + check.hardFailed + err,
                        !.requiresOverride = check.hardFailed > 0,
                        !.failedPolicies =
                            IF check.hardFailed > 0
                            THEN <<PolicyDetail("policy-check-" \o "polchk-1",
                                       "mandatory", "failed",
                                       ToString(check.hardFailed)
                                           \o " mandatory policies failed")>>
                            ELSE <<>>])

\* GetPolicyEvaluation from the listing of the task stages on.  w: what the
\* remote answers.
GetPolicyEvaluationFetch(cs, w) ==
    LET c1 == Append(cs, [name |-> "TaskStages.List", ok |-> ~w.listErr])
        modern == getPolicyFromTaskStages(c1, w.stages, w.stageReadErr, w.evals)
        tried == ~w.listErr /\ Len(w.stages) > 0
        c2 == Append(IF tried THEN modern.calls ELSE c1,
                     [name |-> "Runs.ReadWithOptions", ok |-> ~w.read2Err])
    IN  IF tried /\ modern.err = NilErr THEN modern
        ELSE IF tried /\ ~ErrorsIs(modern.err, ErrNoPolicyCheck) THEN modern
        ELSE IF w.read2Err
        THEN FetchOutcome(c2, NilObj,
                 WrapError(<<"error reading run for policy checks: ",
                             "Runs.ReadWithOptions">>,
                           ApiErr("Runs.ReadWithOptions")),
                 "legacy")
        ELSE IF w.nChecks = 0
        THEN FetchOutcome(c2, NilObj, ErrNoPolicyCheck, "legacy")
        ELSE FetchOutcome(c2, getPolicyFromPolicyCheck(w.check), NilErr, "legacy")

\* the remote call each loop polls with
PollCall(o) ==
    CASE o \in RunOps -> "Runs.ReadWithOptions"
      [] o \in {"override", "evaluate"} -> "Runs.Read"
      [] o = "upload" -> "ConfigurationVersions.Read"
      [] o = "outputs" -> "StateVersions.ReadCurrent"

\* what a poll read may answer: an error, or the object in some status
ReadOutcomes(o) ==
    LET S == CASE o \in RunOps \cup {"override", "evaluate"} -> RunStatuses
               [] o = "upload" -> ConfigurationStatuses
               [] o = "outputs" -> StateVersionStatuses
    IN  {[err |-> TRUE, status |-> ""]} \cup {[err |-> FALSE, status |-> x] : x \in S}

\* GetRun: the run read, nil with the error when the read fails
GetRun(rd) == IF rd.err THEN NilObj ELSE RunObj(rd.status)

\* The body of the retry function the four run operations share: the local
\* run variable is assigned the result of GetRun before the error is looked
\* at, then the run is classified.
RunPoll(rd, operation, desired, noop) ==
    LET r == GetRun(rd)
        c == isRunComplete(r.status, desired, noop)
    IN  [obj |-> r,
         res |-> IF rd.err THEN Fatal(ApiErr("Runs.ReadWithOptions"))
                 ELSE IF c.err # NilErr THEN Fatal(c.err)
                 ELSE IF c.done THEN Fatal(NilErr)
                 ELSE retryableTimeoutError(operation)]

\* CreateRun's retry function taking cost_estimated for a final status
CreateRunPoll_CostEstimated(rd, desired) ==
    RunPoll(rd, "create run ", Append(desired, "cost_estimated"), NoopStatus)

CreateRunPoll(rd, desired) == RunPoll(rd, "create run ", desired, NoopStatus)

\* ApplyRun's retry function with a failed read marked retryable
ApplyRunPoll_RetryRead(rd) ==
    IF rd.err
    THEN [obj |-> NilObj, res |-> Retryable(ApiErr("Runs.ReadWithOptions"))]
    ELSE RunPoll(rd, "apply run", <<"applied">>, NoopStatus)

ApplyRunPoll(rd) == RunPoll(rd, "apply run", <<"applied">>, NoopStatus)

\* DiscardRun's retry function polling against the shared noop slice
DiscardRunPoll_SharedNoop(rd) ==
    RunPoll(rd, "discard run", <<"discarded">>, NoopStatus)

DiscardRunPoll(rd) == RunPoll(rd, "discard run", <<"discarded">>, DiscardNoopStatus)

CancelRunPoll(rd) == RunPoll(rd, "cancel run", <<"canceled">>, CancelNoopStatus)

\* UploadConfig's retry function turning the errored status into an error
UploadConfigPoll_ErroredFails(rd, configVersion) ==
    IF rd.err
    THEN [obj |-> configVersion, res |-> Fatal(ApiErr("ConfigurationVersions.Read"))]
    ELSE IF rd.status = "uploaded"
    THEN [obj |-> CvObj(rd.status), res |-> Fatal(NilErr)]
    ELSE IF rd.status = "errored"
    THEN [obj |-> CvObj(rd.status),
          res |-> Fatal(ErrorString(<<"configuration version errored">>))]
    ELSE [obj |-> configVersion, res |-> retryableTimeoutError("upload configuration")]

\* UploadConfig's retry function: configVersion is assigned only when the
\* status read is uploaded or errored
UploadConfigPoll(rd, configVersion) ==
    IF rd.err
    THEN [obj |-> configVersion, res |-> Fatal(ApiErr("ConfigurationVersions.Read"))]
    ELSE IF rd.status = "uploaded" \/ rd.status = "errored"
    THEN [obj |-> CvObj(rd.status), res |-> Fatal(NilErr)]
    ELSE [obj |-> configVersion, res |-> retryableTimeoutError("upload configuration")]

\* ReadStateOutputs' retry function returning nil on every state version read
ReadStateOutputsPoll_AnyRead(rd) ==
    IF rd.err
    THEN [obj |-> NilObj, res |-> Fatal(PanicErr)]
    ELSE [obj |-> SvObj(rd.status), res |-> Fatal(NilErr)]

\* ReadStateOutputs' retry function: currentSV.ResourcesProcessed is read
\* before csvErr is looked at, and go-tfe returns a nil state version with an
\* error
ReadStateOutputsPoll(rd) ==
    IF rd.err
    THEN [obj |-> NilObj, res |-> Fatal(PanicErr)]
    ELSE IF rd.status = "processed"
    THEN [obj |-> SvObj(rd.status), res |-> Fatal(NilErr)]
    ELSE [obj |-> SvObj(rd.status), res |-> retryableTimeoutError("workspace output list")]

PollFn(o, rd, local, desired) ==
    CASE o = "create" -> CreateRunPoll(rd, desired)
      [] o = "apply" -> ApplyRunPoll(rd)
      [] o = "discard" -> DiscardRunPoll(rd)
      [] o = "cancel" -> CancelRunPoll(rd)
      [] o = "upload" -> UploadConfigPoll(rd, local)
      [] o = "outputs" -> ReadStateOutputsPoll(rd)
      [] o = "override" -> waitForOverrideCompletionPoll(rd)
      [] o = "evaluate" -> waitForPolicyEvaluationPoll(rd)

----------------------------------------------------------------------------
\* The run lifecycle driver.

NoBackoff == NewBackoff(0, 0, 0)

NoRead == [err |-> FALSE, status |-> ""]

NoRet == [obj |-> NilObj, err |-> NilErr]

NoFn == [status |-> "", flags |-> NoFlags, pair |-> "none"]

NoClass == [done |-> FALSE, err |-> NilErr]

NoFnOut == [desired |-> <<>>, gotDesired |-> FALSE, first |-> NoClass,
            second |-> NoClass, nCalls |-> 0]

\* no command: the operation is called directly
NoCmd == [name |-> "none", finished |-> FALSE, exit |-> 0, status |-> "",
          run |-> NilObj, out |-> <<>>]

\* what a command does to its outputs on a path on which Run returns:
\* addOutput("status", status), the details of its result when it has one to
\* add (the workspace output command adds its outputs ahead of the status),
\* then closeOutput
CommandOutputs(status, details) ==
    <<[call |-> "addOutput", name |-> "status", value |-> status]>>
        \o (IF details THEN <<[call |-> "addOutput", name |-> "details",
                                value |-> ""]>>
            ELSE <<>>)
        \o <<[call |-> "closeOutput", name |-> "", value |-> ""]>>

\* TF_MAX_TIMEOUT of the processes the driver is followed in
DriverEnvValues == {<<>>, <<"5", "s">>}

Init ==
    /\ pc = "idle"
    /\ op = "none"
    /\ options = NoOptions
    /\ run = NilObj
    /\ runFlags = NoFlags
    /\ desiredStatus = <<>>
    /\ backoff = NoBackoff
    /\ ret = NoRet
    /\ calls = <<>>
    /\ ctxDone = FALSE
    /\ lastObserved = NilObj
    /\ scenPos = 0
    /\ reads = 0
    /\ lastRead = NoRead
    /\ remote = NoRemote
    /\ env \in DriverEnvValues
    /\ onceDone = FALSE
    /\ timeouts = <<>>
    /\ wasReset = FALSE
    /\ fnIn = NoFn
    /\ fnOut = NoFnOut
    /\ cmd = NoCmd

\* the operation returns (obj, err)
Returned(obj, err) ==
    /\ pc' = "done"
    /\ ret' = [obj |-> obj, err |-> err]

\* the operation enters its retry loop with the chain defaultBackoff() builds
EnterLoop(local, desired) ==
    /\ pc' = "poll"
    /\ run' = local
    /\ desiredStatus' = desired
    /\ backoff' = defaultBackoff(onceDone, env)
    /\ timeouts' = Append(timeouts, Timeout(onceDone, env))
    /\ onceDone' = TRUE
    /\ UNCHANGED ret

\* the operation returns before its retry loop
ReturnEarly(obj, err) ==
    /\ Returned(obj, err)
    /\ UNCHANGED <<run, desiredStatus, backoff, timeouts, onceDone>>

\* CreateRun up to Runs.Create without the check of the workspace lock
CreateRunPrefix_LockIgnored(o, w) ==
    LET c1 == <<"Workspaces.Read">>
        c2 == IF o.cvGiven THEN Append(c1, "ConfigurationVersions.Read") ELSE c1
    IN  IF w.wErr
        THEN [calls |-> Log(c1, TRUE), err |-> ApiErr("Workspaces.Read")]
        ELSE IF o.cvGiven /\ w.cvErr
        THEN [calls |-> Log(c2, TRUE), err |-> ApiErr("ConfigurationVersions.Read")]
        ELSE IF o.cvGiven /\ w.cvSpeculative /\ ~o.planOnly
        THEN [calls |-> Log(c2, FALSE),
              err |-> ErrorString(<<"configuration version has been specified as speculative and cannot be used in non-speculative runs">>)]
        ELSE IF w.createErr
        THEN [calls |-> Log(Append(c2, "Runs.Create"), TRUE),
              err |-> ApiErr("Runs.Create")]
        ELSE [calls |-> Log(Append(c2, "Runs.Create"), FALSE), err |-> NilErr]

\* CreateRun up to Runs.Create: the calls issued and the error it returns
\* with, NilErr when the run was created.  w: what the remote answers.
CreateRunPrefix(o, w) ==
    LET c1 == <<"Workspaces.Read">>
        c2 == IF o.cvGiven THEN Append(c1, "ConfigurationVersions.Read") ELSE c1
    IN  IF w.wErr
        THEN [calls |-> Log(c1, TRUE), err |-> ApiErr("Workspaces.Read")]
        ELSE IF w.locked /\ ~o.planOnly
        THEN [calls |-> Log(c1, FALSE),
              err |-> ErrorString(<<"run has been specified as non-speculative and the workspace is currently locked">>)]
        ELSE IF o.cvGiven /\ w.cvErr
        THEN [calls |-> Log(c2, TRUE), err |-> ApiErr("ConfigurationVersions.Read")]
        ELSE IF o.cvGiven /\ w.cvSpeculative /\ ~o.planOnly
        THEN [calls |-> Log(c2, FALSE),
              err |-> ErrorString(<<"configuration version has been specified as speculative and cannot be used in non-speculative runs">>)]
        ELSE IF w.createErr
        THEN [calls |-> Log(Append(c2, "Runs.Create"), TRUE),
              err |-> ApiErr("Runs.Create")]
        ELSE [calls |-> Log(Append(c2, "Runs.Create"), FALSE), err |-> NilErr]

\* what CreateRun has learnt of the remote when it returns or starts polling
RemoteSeen(o, w) ==
    [locked |-> ~w.wErr /\ w.locked,
     cvSpeculative |-> ~w.wErr /\ ~(w.locked /\ ~o.planOnly) /\ o.cvGiven
                       /\ ~w.cvErr /\ w.cvSpeculative]

CreateRun ==
    /\ pc = "idle"
    /\ \E planOnly \in BOOLEAN, cvGiven \in BOOLEAN, fl \in RunFlagSets,
          w \in [wErr : BOOLEAN, locked : BOOLEAN, cvErr : BOOLEAN,
                 cvSpeculative : BOOLEAN, createErr : BOOLEAN] :
         LET o == [planOnly |-> planOnly, cvGiven |-> cvGiven, forceCancel |-> FALSE]
             pre == CreateRunPrefix(o, w)
         IN  /\ op' = "create"
             /\ options' = o
             /\ remote' = RemoteSeen(o, w)
             /\ calls' = pre.calls
             /\ IF pre.err # NilErr
                THEN /\ ReturnEarly(NilObj, pre.err)
                     /\ UNCHANGED <<runFlags, lastObserved>>
                ELSE /\ runFlags' = fl
                     /\ lastObserved' = RunObj("pending")
                     /\ EnterLoop(RunObj("pending"),
                                  getDesiredRunStatus(fl, hasPolicyChecks(fl),
                                                      hasCostEstimate(fl)))
    /\ UNCHANGED <<ctxDone, scenPos, reads, lastRead, env, wasReset, fnIn, fnOut, cmd>>

\* ApplyRun, DiscardRun and CancelRun: the mutating call, then the loop
MutateThenPoll(o, opts, call, failed, desired) ==
    /\ pc = "idle"
    /\ op' = o
    /\ options' = opts
    /\ calls' = Log(<<call>>, failed)
    /\ IF failed
       THEN ReturnEarly(NilObj, ApiErr(call))
       ELSE EnterLoop(NilObj, desired)
    /\ UNCHANGED <<runFlags, lastObserved, remote, ctxDone, scenPos, reads,
                   lastRead, env, wasReset, fnIn, fnOut, cmd>>

ApplyRun ==
    \E failed \in BOOLEAN :
        MutateThenPoll("apply", NoOptions, "Runs.Apply", failed, <<"applied">>)

DiscardRun ==
    \E failed \in BOOLEAN :
        MutateThenPoll("discard", NoOptions, "Runs.Discard", failed, <<"discarded">>)

CancelRun ==
    \E failed \in BOOLEAN, force \in BOOLEAN :
        MutateThenPoll("cancel", [NoOptions EXCEPT !.forceCancel = force],
                       IF force THEN "Runs.ForceCancel" ELSE "Runs.Cancel",
                       failed, <<"canceled">>)

UploadConfig ==
    /\ pc = "idle"
    /\ op' = "upload"
    /\ options' = NoOptions
    /\ \E wErr \in BOOLEAN, cvErr \in BOOLEAN, upErr \in BOOLEAN :
         IF wErr
         THEN /\ calls' = Log(<<"Workspaces.Read">>, TRUE)
              /\ ReturnEarly(NilObj, ApiErr("Workspaces.Read"))
              /\ UNCHANGED lastObserved
         ELSE IF cvErr
         THEN /\ calls' = Log(<<"Workspaces.Read", "ConfigurationVersions.Create">>,
                              TRUE)
              /\ ReturnEarly(NilObj, ApiErr("ConfigurationVersions.Create"))
              /\ UNCHANGED lastObserved
         ELSE IF upErr
         THEN /\ calls' = Log(<<"Workspaces.Read", "ConfigurationVersions.Create",
                                "ConfigurationVersions.Upload">>, TRUE)
              /\ ReturnEarly(CvObj("pending"), ApiErr("ConfigurationVersions.Upload"))
              /\ UNCHANGED lastObserved
         ELSE /\ calls' = Log(<<"Workspaces.Read", "ConfigurationVersions.Create",
                                "ConfigurationVersions.Upload">>, FALSE)
              /\ lastObserved' = CvObj("pending")
              /\ EnterLoop(CvObj("pending"), <<"uploaded", "errored">>)
    /\ UNCHANGED <<runFlags, remote, ctxDone, scenPos, reads, lastRead, env,
                   wasReset, fnIn, fnOut, cmd>>

\* the read of the outputs that ends ReadStateOutputs
ReadOutputsTail(cs) ==
    \E svoErr \in BOOLEAN :
        /\ calls' = Append(cs, [name |-> "StateVersionOutputs.ReadCurrent",
                                 ok |-> ~svoErr])
        /\ IF svoErr
           THEN Returned(NilObj, ApiErr("StateVersionOutputs.ReadCurrent"))
           ELSE Returned(SvoList, NilErr)

ReadStateOutputsCall ==
    /\ pc = "idle"
    /\ op' = "outputs"
    /\ options' = NoOptions
    /\ \E wErr \in BOOLEAN, csvErr \in BOOLEAN, processed \in BOOLEAN :
         IF wErr
         THEN /\ calls' = Log(<<"Workspaces.Read">>, TRUE)
              /\ ReturnEarly(NilObj, ApiErr("Workspaces.Read"))
              /\ UNCHANGED lastObserved
         ELSE IF csvErr
         THEN /\ calls' = Log(<<"Workspaces.Read", "StateVersions.ReadCurrent">>, TRUE)
              /\ ReturnEarly(NilObj, ApiErr("StateVersions.ReadCurrent"))
              /\ UNCHANGED lastObserved
         ELSE IF processed
         THEN /\ ReadOutputsTail(Log(<<"Workspaces.Read",
                                        "StateVersions.ReadCurrent">>, FALSE))
              /\ lastObserved' = SvObj("processed")
              /\ UNCHANGED <<run, desiredStatus, backoff, timeouts, onceDone>>
         ELSE /\ calls' = Log(<<"Workspaces.Read", "StateVersions.ReadCurrent">>, FALSE)
              /\ lastObserved' = SvObj("unprocessed")
              /\ pc' = "poll"
              /\ run' = SvObj("unprocessed")
              /\ desiredStatus' = <<"processed">>
              /\ backoff' = wServiceBackoff
              /\ UNCHANGED <<ret, timeouts, onceDone>>
    /\ UNCHANGED <<runFlags, remote, ctxDone, scenPos, reads, lastRead, env,
                   wasReset, fnIn, fnOut>>

ReadStateOutputs ==
    /\ ReadStateOutputsCall
    /\ UNCHANGED cmd

\* the PolicyOverride with its initial status read from the run the wait
\* ended with
NewPolicyOverride_InitialFromFinalRun(o, rem, finalRun) ==
    [runID |-> "run-1", stageID |-> rem.stageID, checkID |-> rem.checkID,
     justification |-> o.justification,
     initialStatus |-> finalRun.status,
     finalStatus |-> finalRun.status, overrideComplete |-> TRUE]

\* what the operation returns when retry.Do returns err, the local variable
\* holding `local`
\* the PolicyOverride OverridePolicy returns after its wait: result as built
\* for options o before the override was sent, completed with finalRun
NewPolicyOverride(o, rem, finalRun) ==
    [runID |-> "run-1", stageID |-> rem.stageID, checkID |-> rem.checkID,
     justification |-> o.justification,
     initialStatus |-> rem.eligibility.status,
     finalStatus |-> finalRun.status, overrideComplete |-> TRUE]

LoopReturn(o, local, err, cs) ==
    IF o = "outputs" /\ err = NilErr
    THEN ReadOutputsTail(cs)
    ELSE IF o = "evaluate" /\ err = NilErr
    THEN /\ pc' = "fetch"
         /\ calls' = cs
         /\ UNCHANGED ret
    ELSE /\ calls' = cs
         /\ Returned(IF o = "outputs" \/ (o \in {"override", "evaluate"} /\ err # NilErr)
                     THEN NilObj
                     ELSE IF o = "override"
                     THEN NewPolicyOverride(options, remote, local)
                     ELSE local, err)

\* the scenario position after a poll read answered rd
ScenarioStep(pos, rd) ==
    IF rd.err THEN pos
    ELSE IF pos >= 0 /\ pos < Len(ScenarioChanges)
            /\ ScenarioChanges[pos + 1] = rd.status
         THEN pos + 1
    ELSE IF pos = Len(ScenarioChanges) /\ rd.status \in ScenarioFinals
         THEN pos + 1
         ELSE -1

\* the object a successful poll read of operation o returned
ObservedObj(o, rd) ==
    CASE o \in RunOps \cup {"override", "evaluate"} -> RunObj(rd.status)
      [] o = "upload" -> CvObj(rd.status)
      [] o = "outputs" -> SvObj(rd.status)

\* One iteration of retry.Do: return ctx.Err() if the context is done;
\* otherwise call the retry function, return on nil or on an error that is
\* not retryable, ask the backoff for the next wait and return the unwrapped
\* error if it says stop.  slow: the read took the time the chain had left.
PollWith(outcomes, maxReads) ==
    /\ pc = "poll"
    /\ IF ctxDone
       THEN /\ LoopReturn(op, run, CtxErr, calls)
            /\ UNCHANGED <<run, backoff, reads, lastObserved, scenPos, lastRead>>
       ELSE /\ reads < maxReads
            /\ \E rd \in outcomes, slow \in BOOLEAN :
                 LET f == PollFn(op, rd, run, desiredStatus)
                     nx == BackoffNext(backoff, IF slow THEN 0 ELSE backoff.remaining)
                     cs == Append(calls, [name |-> PollCall(op), ok |-> ~rd.err])
                 IN  /\ run' = f.obj
                     /\ reads' = reads + 1
                     /\ lastRead' = rd
                     /\ lastObserved' = IF rd.err THEN lastObserved
                                        ELSE ObservedObj(op, rd)
                     /\ scenPos' = ScenarioStep(scenPos, rd)
                     /\ IF ~f.res.retryable
                        THEN /\ LoopReturn(op, f.obj, f.res.err, cs)
                             /\ UNCHANGED backoff
                        ELSE IF nx.stop
                        THEN /\ LoopReturn(op, f.obj, f.res.err, cs)
                             /\ backoff' = nx.b
                        ELSE /\ pc' = "sleep"
                             /\ calls' = cs
                             /\ backoff' = nx.b
                             /\ UNCHANGED ret
    /\ UNCHANGED <<op, options, runFlags, desiredStatus, ctxDone, remote, env,
                   onceDone, timeouts, wasReset, fnIn, fnOut, cmd>>

\* an iteration of retry.Do against a remote that may answer anything
Poll == PollWith(ReadOutcomes(op), MaxReads)

\* the timer of retry.Do fires: the wait has passed
Wake ==
    /\ pc = "sleep"
    /\ ~ctxDone
    /\ pc' = "poll"
    /\ backoff' = [backoff EXCEPT !.remaining = backoff.remaining - backoff.wait]
    /\ UNCHANGED <<op, options, run, runFlags, desiredStatus, ret, calls, ctxDone,
                   lastObserved, scenPos, reads, lastRead, remote, env, onceDone,
                   timeouts, wasReset, fnIn, fnOut, cmd>>

\* the context is done while retry.Do waits, reported as the timeout of the
\* operation
SleepCancelled_AsTimeout ==
    /\ pc = "sleep"
    /\ ctxDone
    /\ LoopReturn(op, run, newRetryTimeoutError("cancel run"), calls)
    /\ UNCHANGED <<op, options, run, runFlags, desiredStatus, backoff, ctxDone,
                   lastObserved, scenPos, reads, lastRead, remote, env, onceDone,
                   timeouts, wasReset, fnIn, fnOut, cmd>>

\* the context is done while retry.Do waits: it returns ctx.Err()
SleepCancelled ==
    /\ pc = "sleep"
    /\ ctxDone
    /\ LoopReturn(op, run, CtxErr, calls)
    /\ UNCHANGED <<op, options, run, runFlags, desiredStatus, backoff, ctxDone,
                   lastObserved, scenPos, reads, lastRead, remote, env, onceDone,
                   timeouts, wasReset, fnIn, fnOut, cmd>>

\* the caller cancels the context while the operation polls
CtxCancel ==
    /\ pc \in {"poll", "sleep"}
    /\ ~ctxDone
    /\ ctxDone' = TRUE
    /\ UNCHANGED <<pc, op, options, run, runFlags, desiredStatus, backoff, ret,
                   calls, lastObserved, scenPos, reads, lastRead, remote, env,
                   onceDone, timeouts, wasReset, fnIn, fnOut, cmd>>

Next ==
    \/ CreateRun
    \/ ApplyRun
    \/ DiscardRun
    \/ CancelRun
    \/ UploadConfig
    \/ ReadStateOutputs
    \/ Poll
    \/ Wake
    \/ SleepCancelled
    \/ CtxCancel

Spec == Init /\ [][Next]_vars

----------------------------------------------------------------------------
\* The status classifier on its own: getDesiredRunStatus and isRunComplete
\* applied to every run flag combination, status and pair of status slices.

\* the pairs (desired, noop) the operations classify against, and one pair
\* that shares a status
ClassifierPairs == {"create", "apply", "discard", "cancel", "overlap"}

PairDesired(pair, flags) ==
    CASE pair = "create" ->
             getDesiredRunStatus(flags, hasPolicyChecks(flags), hasCostEstimate(flags))
      [] pair = "apply" -> <<"applied">>
      [] pair = "discard" -> <<"discarded">>
      [] pair = "cancel" -> <<"canceled">>
      [] pair = "overlap" -> <<"planned", "errored">>

PairNoop(pair) ==
    CASE pair = "discard" -> DiscardNoopStatus
      [] pair = "cancel" -> CancelNoopStatus
      [] OTHER -> NoopStatus

InitClassifier ==
    /\ pc = "idle"
    /\ op = "none"
    /\ options = NoOptions
    /\ run = NilObj
    /\ runFlags = NoFlags
    /\ desiredStatus = <<>>
    /\ backoff = NoBackoff
    /\ ret = NoRet
    /\ calls = <<>>
    /\ ctxDone = FALSE
    /\ lastObserved = NilObj
    /\ scenPos = 0
    /\ reads = 0
    /\ lastRead = NoRead
    /\ remote = NoRemote
    /\ env = <<>>
    /\ onceDone = FALSE
    /\ timeouts = <<>>
    /\ wasReset = FALSE
    /\ fnIn \in [status : RunStatuses, flags : RunFlagSets, pair : ClassifierPairs]
    /\ fnOut = NoFnOut
    /\ cmd = NoCmd

GetDesired ==
    /\ ~fnOut.gotDesired
    /\ fnOut' = [fnOut EXCEPT
                   !.desired = getDesiredRunStatus(fnIn.flags,
                                                   hasPolicyChecks(fnIn.flags),
                                                   hasCostEstimate(fnIn.flags)),
                   !.gotDesired = TRUE]
    /\ UNCHANGED <<driverVars, timeoutVars, fnIn, cmd>>

Classify ==
    /\ fnOut.nCalls = 0
    /\ fnOut' = [fnOut EXCEPT
                   !.first = isRunComplete(fnIn.status,
                                           PairDesired(fnIn.pair, fnIn.flags),
                                           PairNoop(fnIn.pair)),
                   !.nCalls = 1]
    /\ UNCHANGED <<driverVars, timeoutVars, fnIn, cmd>>

ClassifyAgain ==
    /\ fnOut.nCalls = 1
    /\ fnOut' = [fnOut EXCEPT
                   !.second = isRunComplete(fnIn.status,
                                            PairDesired(fnIn.pair, fnIn.flags),
                                            PairNoop(fnIn.pair)),
                   !.nCalls = 2]
    /\ UNCHANGED <<driverVars, timeoutVars, fnIn, cmd>>

NextClassifier == GetDesired \/ Classify \/ ClassifyAgain

SpecClassifier == InitClassifier /\ [][NextClassifier]_vars

----------------------------------------------------------------------------
\* Properties of the run lifecycle driver (specification Spec).

\* the noop slice each run operation is documented to poll against
NoopOf(o) ==
    CASE o = "discard" -> DiscardNoopStatus
      [] o = "cancel" -> CancelNoopStatus
      [] OTHER -> NoopStatus

\* the most recent poll read succeeded and reported status st
Observed(st) == reads > 0 /\ ~lastRead.err /\ lastRead.status = st

\* the most recent poll read succeeded
ObservedAny == reads > 0 /\ ~lastRead.err

Succeeded == pc = "done" /\ ret.err = NilErr

\* the loop goes on, or was ended by the backoff or by the context
StillPolling ==
    \/ pc \in {"poll", "sleep"}
    \/ /\ pc = "done"
       /\ ret.err.type \in {"*cloud.RetryTimeoutError", "context.Canceled"}

\* C1: CreateRun reads the run once per poll; a poll that reads a status of
\* the desired slice returns success with that run; success is returned at no
\* other status; a status in neither slice keeps the loop polling.  A plan-only
\* run read as planning, planning, cost_estimated, policy_checked,
\* planned_and_finished succeeds at planned_and_finished after five reads.
C1_CreateRunPollsUntilDesired ==
    op = "create" =>
        /\ reads = Issued(calls, "Runs.ReadWithOptions")
        /\ (ObservedAny /\ lastRead.status \in Range(desiredStatus))
              => (Succeeded /\ ret.obj = RunObj(lastRead.status))
        /\ Succeeded
              => (ObservedAny /\ lastRead.status \in Range(desiredStatus))
        /\ (ObservedAny
            /\ lastRead.status \notin Range(desiredStatus) \cup Range(NoopStatus))
              => StillPolling
        /\ (runFlags.planOnly /\ scenPos \in 1..4) => ~Succeeded
        /\ (runFlags.planOnly /\ scenPos = 5 /\ Observed("planned_and_finished"))
              => (Succeeded /\ reads = 5
                  /\ ret.obj.status = "planned_and_finished")

C1_Witness ==
    /\ op = "create"
    /\ runFlags.planOnly
    /\ scenPos = 5
    /\ Observed("planned_and_finished")
    /\ Succeeded
    /\ reads = 5

\* C4: CreateRun of an auto-apply run with cost estimation and policy checks
\* never returns success at planned, cost_estimated or policy_checked, and
\* returns success with the run when it reads applied.
C4_AutoApplyRunWaitsForApplied ==
    (/\ op = "create"
     /\ ~runFlags.planOnly /\ runFlags.autoApply
     /\ runFlags.costEstimate /\ runFlags.policyChecks
     /\ ObservedAny)
    => /\ lastRead.status \in {"planned", "cost_estimated", "policy_checked"}
             => StillPolling
       /\ lastRead.status = "applied"
             => (Succeeded /\ ret.obj = RunObj("applied"))

C4_Witness ==
    /\ op = "create"
    /\ ~runFlags.planOnly /\ runFlags.autoApply
    /\ runFlags.costEstimate /\ runFlags.policyChecks
    /\ scenPos = 5
    /\ Observed("applied")
    /\ Succeeded

\* C5: a poll of a run operation that reads a status of its noop slice (and
\* not of its desired slice) ends the operation with an error that names the
\* status and is no retry timeout: it resolves to Error.
C5_NoopStatusIsAnError ==
    (/\ op \in RunOps
     /\ ObservedAny
     /\ lastRead.status \in Range(NoopOf(op)) \ Range(desiredStatus))
    => /\ pc = "done"
       /\ ret.err.type \notin {"nil", "*cloud.RetryTimeoutError"}
       /\ lastRead.status \in Range(ret.err.msg)
       /\ resolveStatus(ret.err) = "Error"

C5_Witness ==
    /\ op = "discard"
    /\ reads >= 2
    /\ Observed("planned")
    /\ pc = "done"
    /\ resolveStatus(ret.err) = "Error"

\* a status that leaves the operation neither done nor failed
Pending(o, st) ==
    CASE o \in RunOps -> st \notin Range(desiredStatus) \cup Range(NoopOf(o))
      [] o = "upload" -> st \notin {"uploaded", "errored"}
      [] o = "outputs" -> st # "processed"
      [] OTHER -> FALSE

\* C6: an operation that returns while its last poll read succeeded and found
\* it neither done nor failed, and not because the context was cancelled, has
\* used up its backoff and returns a *RetryTimeoutError; resolveStatus gives
\* Timeout for that type alone, Error for every other error, Success for nil.
C6_ExhaustedBackoffIsTimeout ==
    pc = "done" =>
        /\ (ObservedAny /\ Pending(op, lastRead.status) /\ ret.err # CtxErr)
              => /\ ret.err.type = "*cloud.RetryTimeoutError"
                 /\ backoff.remaining = 0
                 /\ resolveStatus(ret.err) = "Timeout"
        /\ resolveStatus(ret.err) = "Timeout"
              <=> ret.err.type = "*cloud.RetryTimeoutError"
        /\ resolveStatus(ret.err) = "Success" <=> ret.err = NilErr
        /\ resolveStatus(ret.err) \in {"Timeout", "Success", "Error"}

C6_Witness ==
    /\ pc = "done"
    /\ op = "create"
    /\ env = <<"5", "s">>
    /\ reads = 3
    /\ backoff.prev = 2 /\ backoff.curr = 4
    /\ ObservedAny
    /\ Pending(op, lastRead.status)
    /\ ret.err.type = "*cloud.RetryTimeoutError"

\* the operations of the run lifecycle driver
DriverOps == RunOps \cup {"upload"}

MutatingCalls ==
    {"Runs.Create", "Runs.Apply", "Runs.Discard", "Runs.Cancel",
     "Runs.ForceCancel", "ConfigurationVersions.Create",
     "ConfigurationVersions.Upload"}

\* C8: in the driver's operations a remote call that fails is the last call
\* issued and its error is what the operation returns; when it is the
\* mutating call no poll read was issued, and when it is a poll read the error
\* is not a timeout error.
C8_RemoteErrorsAreNotRetried ==
    op \in DriverOps =>
        \A i \in 1..Len(calls) :
            ~calls[i].ok =>
                /\ i = Len(calls)
                /\ pc = "done"
                /\ ret.err = ApiErr(calls[i].name)
                /\ ret.err.type # "*cloud.RetryTimeoutError"
                /\ calls[i].name \in MutatingCalls => reads = 0
                /\ (\A j \in 1..Len(calls) : calls[j].name \notin MutatingCalls)
                      => reads = 0

C8_Witness ==
    /\ op = "apply"
    /\ reads >= 2
    /\ lastRead.err
    /\ pc = "done"
    /\ ret.err = ApiErr("Runs.ReadWithOptions")

\* C9: a run operation that returns an error after a poll read has succeeded
\* returns the run of the most recent successful read.
C9_ErrorReturnsLastObservedRun ==
    (/\ op \in RunOps
     /\ pc = "done"
     /\ ret.err # NilErr
     /\ (reads >= 2 \/ (reads = 1 /\ ~lastRead.err)))
    => ret.obj = lastObserved

----------------------------------------------------------------------------
\* Properties of the status classifier (specification SpecClassifier).

\* the statuses every desired set holds, with planned_and_saved when a saved
\* plan was requested
SharedDesired(f) ==
    {"policy_soft_failed", "planned_and_finished", "applied"}
        \cup (IF f.savePlan THEN {"planned_and_saved"} ELSE {})

\* the desired set documented for a flag combination
DocumentedDesired(f) ==
    IF f.planOnly THEN SharedDesired(f)
    ELSE IF f.autoApply
         THEN SharedDesired(f)
                  \cup (IF f.policyChecks THEN {"policy_override"} ELSE {})
    ELSE IF f.costEstimate /\ ~f.policyChecks
         THEN SharedDesired(f) \cup {"cost_estimated"}
    ELSE IF f.policyChecks
         THEN SharedDesired(f) \cup {"policy_checked", "policy_override"}
    ELSE SharedDesired(f) \cup {"planned"}

\* C2: for every combination of the five flags the statuses of the slice
\* getDesiredRunStatus returns are exactly the documented set.
C2_DesiredRunStatusIsDocumentedSet ==
    fnOut.gotDesired => Range(fnOut.desired) = DocumentedDesired(fnIn.flags)

C2_Witness ==
    /\ fnOut.gotDesired
    /\ ~fnIn.flags.planOnly /\ ~fnIn.flags.autoApply
    /\ fnIn.flags.costEstimate /\ fnIn.flags.policyChecks /\ fnIn.flags.savePlan
    /\ Range(fnOut.desired) =
           {"policy_soft_failed", "planned_and_finished", "applied",
            "planned_and_saved", "policy_checked", "policy_override"}

\* the (done, error) pair documented for a status and two slices
DocumentedComplete(c, status, desired, noop) ==
    IF status \in Range(desired)
    THEN c.done /\ c.err = NilErr
    ELSE IF status \in Range(noop)
    THEN c.done /\ c.err.type # "nil" /\ status \in Range(c.err.msg)
    ELSE ~c.done /\ c.err = NilErr

\* C3: isRunComplete answers (done, no error) for a status of the desired
\* slice, else (done, an error naming the status) for a status of the noop
\* slice, else (not done, no error); a second call gives the same pair.
C3_IsRunCompleteThreeWay ==
    /\ fnOut.nCalls >= 1
          => DocumentedComplete(fnOut.first, fnIn.status,
                                PairDesired(fnIn.pair, fnIn.flags),
                                PairNoop(fnIn.pair))
    /\ fnOut.nCalls = 2 => fnOut.second = fnOut.first

C3_Witness ==
    /\ fnOut.nCalls = 2
    /\ fnIn.pair = "cancel"
    /\ fnIn.status = "planned_and_saved"
    /\ fnOut.second.done
    /\ fnOut.second.err.type # "nil"

----------------------------------------------------------------------------
\* The maximum retry duration on its own: a process that calls Timeout() and
\* defaultBackoff(), with the environment variable set and the once replaced
\* between calls as the package's test does.

InitTimeout ==
    /\ pc = "idle"
    /\ op = "none"
    /\ options = NoOptions
    /\ run = NilObj
    /\ runFlags = NoFlags
    /\ desiredStatus = <<>>
    /\ backoff = NoBackoff
    /\ ret = NoRet
    /\ calls = <<>>
    /\ ctxDone = FALSE
    /\ lastObserved = NilObj
    /\ scenPos = 0
    /\ reads = 0
    /\ lastRead = NoRead
    /\ remote = NoRemote
    /\ env \in EnvValues
    /\ onceDone = FALSE
    /\ timeouts = <<>>
    /\ wasReset = FALSE
    /\ fnIn = NoFn
    /\ fnOut = NoFnOut
    /\ cmd = NoCmd

CallTimeout ==
    /\ Len(timeouts) < MaxTimeoutCalls
    /\ timeouts' = Append(timeouts, Timeout(onceDone, env))
    /\ onceDone' = TRUE
    /\ UNCHANGED <<driverVars, env, wasReset, fnIn, fnOut, cmd>>

CallDefaultBackoff ==
    /\ Len(timeouts) < MaxTimeoutCalls
    /\ backoff' = defaultBackoff(onceDone, env)
    /\ timeouts' = Append(timeouts, Timeout(onceDone, env))
    /\ onceDone' = TRUE
    /\ UNCHANGED <<pc, op, options, run, runFlags, desiredStatus, ret, calls,
                   ctxDone, lastObserved, scenPos, reads, lastRead, remote, env,
                   wasReset, fnIn, fnOut, cmd>>

\* os.Setenv(tfMaxTimeout, v)
Setenv ==
    /\ \E v \in EnvValues \ {env} : env' = v
    /\ UNCHANGED <<driverVars, onceDone, timeouts, wasReset, fnIn, fnOut, cmd>>

\* once = new(sync.Once)
ResetOnce ==
    /\ onceDone
    /\ onceDone' = FALSE
    /\ wasReset' = TRUE
    /\ UNCHANGED <<driverVars, env, timeouts, fnIn, fnOut, cmd>>

NextTimeout == CallTimeout \/ CallDefaultBackoff \/ Setenv \/ ResetOnce

SpecTimeout == InitTimeout /\ [][NextTimeout]_vars

\* C7: while the once has not been replaced, every call of Timeout() returns
\* what the first call returned.
C7_TimeoutIsCached ==
    ~wasReset => \A i \in 1..Len(timeouts) : timeouts[i] = timeouts[1]

----------------------------------------------------------------------------
\* The policy override: OverridePolicy, then the loop of
\* waitForOverrideCompletion.

\* what OverridePolicy has learnt of the remote before its wait: the answer of
\* the eligibility read (NoRead when it was not reached) and the API it took
\* with the task stages listed and the ids the override was sent to
PolicyRemote(rd, pre, w) ==
    [eligibility |-> rd, reached |-> TRUE, path |-> pre.path,
     listErr |-> w.listErr, stages |-> w.stages, nChecks |-> w.nChecks,
     stageID |-> pre.stageID, checkID |-> pre.checkID]

NoPolicyRemote == [eligibility |-> NoRead, reached |-> FALSE, path |-> "none"]

InitPolicy ==
    /\ Init
    /\ env = <<>>

\* OverridePolicy called with options o
OverridePolicyCall(o) ==
    /\ pc = "idle"
    /\ \E w \in [rd : ReadOutcomes("override"), listErr : BOOLEAN,
                 stages : TaskStageLists, read2Err : BOOLEAN, nChecks : 0..1,
                 overrideErr : BOOLEAN, commentErr : BOOLEAN] :
         LET pre == OverridePolicyPrefix(o, w)
         IN  /\ op' = "override"
             /\ options' = o
             /\ calls' = pre.calls
             /\ remote' = IF Len(pre.calls) = 0 THEN NoPolicyRemote
                          ELSE PolicyRemote(w.rd, pre, w)
             /\ lastObserved' = IF Len(pre.calls) = 0 \/ w.rd.err THEN NilObj
                                ELSE RunObj(w.rd.status)
             /\ IF pre.wait
                THEN /\ pc' = "poll"
                     /\ run' = NilObj
                     /\ desiredStatus' = OverrideCompleteStatuses
                     /\ backoff' = policyWaitBackoffStrategy
                     /\ UNCHANGED ret
                ELSE /\ Returned(NilObj, pre.err)
                     /\ UNCHANGED <<run, desiredStatus, backoff>>
    /\ UNCHANGED <<runFlags, ctxDone, scenPos, reads, lastRead, env, onceDone,
                   timeouts, wasReset, fnIn, fnOut>>

OverridePolicy ==
    \E o \in OverridePolicyOptionSets :
        /\ OverridePolicyCall(o)
        /\ UNCHANGED cmd

\* the command returns before it calls the service
CommandReturnsEarly(name, o, code) ==
    /\ pc' = "done"
    /\ options' = o
    /\ cmd' = [name |-> name, finished |-> TRUE, exit |-> code,
               status |-> "Error", run |-> NilObj,
               out |-> CommandOutputs("Error", FALSE)]
    /\ UNCHANGED <<op, run, runFlags, desiredStatus, backoff, ret, calls,
                   ctxDone, lastObserved, scenPos, reads, lastRead, remote, env,
                   onceDone, timeouts, wasReset, fnIn, fnOut>>

\* the command has called the service and waits for it to return
CommandCalls(name) == cmd' = [NoCmd EXCEPT !.name = name]

\* the command reports and exits after the service returned
CommandFinishes(name, code, status, details) ==
    /\ pc = "done"
    /\ cmd.name = name
    /\ ~cmd.finished
    /\ cmd' = [cmd EXCEPT !.finished = TRUE, !.exit = code, !.status = status,
                          !.run = details,
                          !.out = IF status = "" THEN <<>>
                                  ELSE CommandOutputs(status, details # NilObj)]
    /\ UNCHANGED <<pc, op, options, run, runFlags, desiredStatus, backoff, ret,
                   calls, ctxDone, lastObserved, scenPos, reads, lastRead, remote,
                   env, onceDone, timeouts, wasReset, fnIn, fnOut>>

\* the exit code PolicyOverrideCommand.Run picks for the error of OverridePolicy
PolicyOverrideExitCode(err) ==
    IF err = NilErr THEN 0
    ELSE IF StringsContains(ErrorText(err), "discarded") THEN 2
    ELSE IF StringsContains(ErrorText(err), "timeout")
            \/ StringsContains(ErrorText(err), "deadline exceeded") THEN 3
    ELSE 1

\* PolicyOverrideCommand.Run up to the return of OverridePolicy
PolicyOverrideCommandRun ==
    /\ pc = "idle"
    /\ \E o \in OverridePolicyOptionSets :
         IF o.runID = <<>> \/ o.justification = <<>>
         THEN CommandReturnsEarly("policy override", o, 1)
         ELSE /\ OverridePolicyCall(o)
              /\ CommandCalls("policy override")

\* PolicyOverrideCommand.Run from the return of OverridePolicy
PolicyOverrideCommandExit ==
    CommandFinishes("policy override", PolicyOverrideExitCode(ret.err),
                    resolveStatus(ret.err), ret.obj)

\* what GetPolicyEvaluation has learnt of the remote: the answer of its first
\* read of the run, the API it took and what the retrieval was answered
EvaluationRemote(rd, path, w) ==
    [first |-> rd, reached |-> TRUE, path |-> path, fetch |-> w]

NoCheck == [result |-> FALSE, passed |-> 0, softFailed |-> 0, advisoryFailed |-> 0,
            hardFailed |-> 0, status |-> ""]

NoFetch == [listErr |-> FALSE, stages |-> <<>>, stageReadErr |-> FALSE,
            evals |-> <<>>, read2Err |-> FALSE, nChecks |-> 0, check |-> NoCheck]

HasPolicyStage(stages) ==
    \E i \in 1..Len(stages) : stages[i] \in {"pre_plan", "post_plan"}

\* the policy evaluations a task stage may carry
EvalLists == UNION {[1..n -> PolicyEvals] : n \in 0..MaxEvals}

\* what the remote may answer to the retrieval: a task stage list with a
\* policy stage, its detail and the outcomes of its evaluations; or a failed
\* or policy-less listing, and the policy checks of the run
FetchAnswers ==
    [listErr : {FALSE}, stages : {s \in TaskStageLists : HasPolicyStage(s)},
     stageReadErr : BOOLEAN, evals : EvalLists, read2Err : {FALSE},
     nChecks : {0}, check : {NoCheck}]
    \cup
    {w \in [listErr : BOOLEAN, stages : TaskStageLists, stageReadErr : {FALSE},
            evals : {<<>>}, read2Err : BOOLEAN, nChecks : 0..1,
            check : PolicyCheckResults] :
        w.listErr \/ ~HasPolicyStage(w.stages)}

\* GetPolicyEvaluation called with options o, up to its wait or retrieval
GetPolicyEvaluationCall(o) ==
    /\ pc = "idle"
    /\ op' = "evaluate"
    /\ options' = o
    /\ IF GetPolicyEvaluationOptionsValidate(o) # NilErr
       THEN /\ calls' = <<>>
            /\ remote' = NoPolicyRemote
            /\ Returned(NilObj, GetPolicyEvaluationOptionsValidate(o))
            /\ UNCHANGED <<run, backoff, lastObserved>>
       ELSE \E rd \in ReadOutcomes("evaluate") :
              /\ calls' = <<[name |-> "Runs.ReadWithOptions", ok |-> ~rd.err]>>
              /\ remote' = EvaluationRemote(rd, "none", NoFetch)
              /\ IF rd.err
                 THEN /\ Returned(NilObj,
                                  WrapError(<<"error reading run: ",
                                              "Runs.ReadWithOptions">>,
                                            ApiErr("Runs.ReadWithOptions")))
                      /\ UNCHANGED <<run, backoff, lastObserved>>
                 ELSE IF o.noWait \/ isPolicyEvaluationComplete(rd.status)
                 THEN /\ pc' = "fetch"
                      /\ run' = RunObj(rd.status)
                      /\ lastObserved' = RunObj(rd.status)
                      /\ UNCHANGED <<ret, backoff>>
                 ELSE /\ pc' = "poll"
                      /\ run' = NilObj
                      /\ lastObserved' = RunObj(rd.status)
                      /\ backoff' = policyWaitBackoffStrategy
                      /\ UNCHANGED ret
    /\ UNCHANGED <<runFlags, desiredStatus, ctxDone, scenPos, reads, lastRead,
                   env, onceDone, timeouts, wasReset, fnIn, fnOut>>

GetPolicyEvaluation ==
    \E o \in GetPolicyEvaluationOptionSets :
        /\ GetPolicyEvaluationCall(o)
        /\ UNCHANGED cmd

\* GetPolicyEvaluation after its wait: the retrieval of the policy results
FetchPolicy ==
    /\ pc = "fetch"
    /\ \E w \in FetchAnswers :
         LET got == GetPolicyEvaluationFetch(calls, w)
         IN  /\ calls' = got.calls
             /\ remote' = EvaluationRemote(remote.first, got.path, w)
             /\ Returned(got.obj, got.err)
    /\ UNCHANGED <<op, options, run, runFlags, desiredStatus, backoff, ctxDone,
                   lastObserved, scenPos, reads, lastRead, env, onceDone,
                   timeouts, wasReset, fnIn, fnOut, cmd>>

NextPolicy ==
    \/ OverridePolicy
    \/ PolicyOverrideCommandRun
    \/ PolicyOverrideCommandExit
    \/ GetPolicyEvaluation
    \/ FetchPolicy
    \/ Poll
    \/ Wake
    \/ SleepCancelled
    \/ CtxCancel

SpecPolicy == InitPolicy /\ [][NextPolicy]_vars

OverrideCalls == {"TaskStages.Override", "PolicyChecks.Override", "Comments.Create"}

OverrideCallIssued == \E i \in 1..Len(calls) : calls[i].name \in OverrideCalls

\* the eligibility check read the run, in status st
EligibilityRead(st) ==
    /\ op = "override"
    /\ remote.reached
    /\ ~remote.eligibility.err
    /\ remote.eligibility.status = st

\* C10: OverridePolicy issues TaskStages.Override, PolicyChecks.Override or
\* Comments.Create only when its eligibility check read the run in status
\* post_plan_awaiting_decision; when the check read any other status,
\* OverridePolicy has returned no result and an error that is
\* ErrInvalidRunStatus and names post_plan_awaiting_decision, after the one
\* call that read the run.
C10_OverrideOnlyWhenAwaitingDecision ==
    /\ (op = "override" /\ OverrideCallIssued)
          => EligibilityRead("post_plan_awaiting_decision")
    /\ \A st \in RunStatuses \ {"post_plan_awaiting_decision"} :
          EligibilityRead(st) =>
              /\ pc = "done"
              /\ ret.obj = NilObj
              /\ ErrorsIs(ret.err, ErrInvalidRunStatus)
              /\ ret.err.msg[Len(ret.err.msg)] = "post_plan_awaiting_decision"
              /\ st \in Range(ret.err.msg)
              /\ calls = Log(<<"Runs.Read">>, FALSE)

C10_Witness ==
    /\ EligibilityRead("policy_soft_failed")
    /\ pc = "done"
    /\ ErrorsIs(ret.err, ErrInvalidRunStatus)
    /\ ~OverrideCallIssued

----------------------------------------------------------------------------
\* Properties of the policy service (specification SpecPolicy).

\* the wait of OverridePolicy has read the run, and the last read answered st
OverrideWaitRead(st) ==
    /\ op = "override"
    /\ reads >= 1
    /\ ~lastRead.err
    /\ lastRead.status = st

\* the loop ended on a retried read: the context was cancelled or the backoff
\* had no time left
EndedWhileRetrying ==
    /\ pc = "done"
    /\ ret.obj = NilObj
    /\ \/ ret.err = CtxErr /\ ctxDone
       \/ backoff.remaining = 0

\* C11: the wait that follows the override call returns the run without error
\* at a read of policy_override, post_plan_completed or apply_queued; returns
\* the 'discarded during override' error at a read of discarded and the
\* terminal-state error at a read of canceled or errored; and after a read of
\* any other status it polls on, returning only when the context is cancelled
\* or the backoff has no time left, and then with an error.
C11_OverrideWaitOutcomes ==
    \A st \in RunStatuses :
        OverrideWaitRead(st) =>
            CASE st \in {"policy_override", "post_plan_completed", "apply_queued"} ->
                   pc = "done" /\ ret.err = NilErr /\ ret.obj.finalStatus = st
              [] st = "discarded" ->
                   /\ pc = "done"
                   /\ ret.obj = NilObj
                   /\ ret.err = ErrorString(<<"run was discarded during override">>)
              [] st \in {"canceled", "errored"} ->
                   /\ pc = "done"
                   /\ ret.obj = NilObj
                   /\ ret.err = ErrorString(<<"run entered terminal state ", st,
                                              " during override">>)
              [] OTHER ->
                   /\ ret.err # NilErr \/ pc # "done"
                   /\ pc \in {"poll", "sleep"} \/ EndedWhileRetrying

C11_Witness ==
    /\ OverrideWaitRead("apply_queued")
    /\ reads = 3
    /\ pc = "done"
    /\ ret.err = NilErr

\* the policy override command has exited
OverrideCommandExited == cmd.name = "policy override" /\ cmd.finished

\* the wait of OverridePolicy ended because its backoff had no time left, the
\* last read having answered a status the wait retries on
OverrideWaitExhausted ==
    /\ op = "override"
    /\ pc = "done"
    /\ reads >= 1
    /\ ~lastRead.err
    /\ lastRead.status \notin Range(OverrideCompleteStatuses)
                               \cup {"discarded", "canceled", "errored"}
    /\ backoff.remaining = 0
    /\ ret.err # CtxErr

\* C12: when the wait of OverridePolicy has used up its backoff on a retried
\* status, the error returned is a *RetryTimeoutError, the command reports
\* status Timeout and exits with code 3.
C12_PolicyWaitExhaustedIsTimeout ==
    (OverrideWaitExhausted /\ OverrideCommandExited) =>
        /\ ret.err.type = "*cloud.RetryTimeoutError"
        /\ cmd.status = "Timeout"
        /\ cmd.exit = 3

\* C13: the policy override command exits with code 2 exactly when the wait
\* that follows the override call read the run as discarded; a run the
\* eligibility check rejects for its status exits with code 1.
C13_ExitTwoOnlyWhenDiscardedDuringWait ==
    OverrideCommandExited =>
        /\ cmd.exit = 2 <=> OverrideWaitRead("discarded")
        /\ \A st \in RunStatuses \ {"post_plan_awaiting_decision"} :
              EligibilityRead(st) => cmd.exit = 1

\* the listing of the task stages was answered without error
TaskStagesListed ==
    \E i \in 1..Len(calls) : calls[i].name = "TaskStages.List" /\ calls[i].ok

\* C14: OverridePolicy and GetPolicyEvaluation take the legacy policy-check
\* path only after TaskStages.List was answered without error, and
\* GetPolicyEvaluation only when the list it was answered with is empty.
C14_LegacyPathOnlyOnEmptyList ==
    (op \in {"override", "evaluate"} /\ remote.reached /\ remote.path = "legacy") =>
        /\ TaskStagesListed
        /\ op = "evaluate" => remote.fetch.stages = <<>>

\* GetPolicyEvaluation has read the run a first time
EvaluationStarted == op = "evaluate" /\ remote.reached /\ ~remote.first.err

\* a call that retrieves policy data was issued: every call after the first
\* read of the run that is not a poll read
PolicyDataFetched ==
    \E i \in 2..Len(calls) : calls[i].name # "Runs.Read"

EvaluationCompleteStatuses ==
    {"post_plan_awaiting_decision", "policy_override", "post_plan_completed",
     "planned_and_finished", "policy_checked", "policy_soft_failed"}

\* C15: without NoWait, GetPolicyEvaluation retrieves policy data only once
\* the run was observed in an evaluation-complete status, issues no poll read
\* when the first read already answers one, and at a poll read of discarded,
\* canceled or errored returns the terminal-state error with no further read
\* and no policy data retrieved.
C15_FetchOnlyAfterEvaluationComplete ==
    (EvaluationStarted /\ ~options.noWait) =>
        /\ (PolicyDataFetched \/ pc = "fetch")
              => lastObserved.status \in EvaluationCompleteStatuses
        /\ remote.first.status \in EvaluationCompleteStatuses => reads = 0
        /\ (reads >= 1 /\ ~lastRead.err
               /\ lastRead.status \in {"discarded", "canceled", "errored"})
              => /\ pc = "done"
                 /\ ret.obj = NilObj
                 /\ ret.err = ErrorString(<<"run entered terminal state ",
                                            lastRead.status,
                                            " without policy evaluation">>)
                 /\ ~PolicyDataFetched
                 /\ calls[Len(calls)].name = "Runs.Read"

C15_Witness ==
    /\ EvaluationStarted
    /\ ~options.noWait
    /\ remote.first.status = "planning"
    /\ reads = 2
    /\ lastObserved.status = "policy_checked"
    /\ PolicyDataFetched
    /\ pc = "done"
    /\ ret.err = NilErr

\* C16: with NoWait, GetPolicyEvaluation called for a run that is not in an
\* evaluation-complete status returns ErrPolicyPending and no PolicyEvaluation,
\* without retrieving policy data.
C16_NoWaitFailsWhenPending ==
    (/\ EvaluationStarted
     /\ options.noWait
     /\ remote.first.status \notin EvaluationCompleteStatuses
     /\ pc = "done")
        => /\ ErrorsIs(ret.err, ErrPolicyPending)
           /\ ret.obj = NilObj
           /\ ~PolicyDataFetched

\* the run ids of RunIDs that are well formed
ValidRunIDs == {<<"r", "u", "n", "-", "1">>}

\* C17: OverridePolicy and GetPolicyEvaluation called with a run id that is
\* empty or malformed, or OverridePolicy with a justification that is empty or
\* shorter than 10 characters, return a validation error and no result
\* without issuing any remote call.
C17_InvalidOptionsRejectedBeforeAnyCall ==
    (/\ op \in {"override", "evaluate"}
     /\ \/ options.runID \notin ValidRunIDs
        \/ op = "override" /\ Len(options.justification) < 10)
        => /\ pc = "done"
           /\ calls = <<>>
           /\ ret.obj = NilObj
           /\ IF options.runID \notin ValidRunIDs
              THEN ret.err = ErrInvalidRunID
              ELSE ErrorsIs(ret.err, ErrInvalidJustification)

C17_Witness ==
    /\ op = "override"
    /\ options.runID = <<"R", "u", "n", "-", "1">>
    /\ Len(options.justification) = 10
    /\ pc = "done"
    /\ calls = <<>>
    /\ ret.err = ErrInvalidRunID

\* the sum of a count over the evaluations that carry a ResultCount
RECURSIVE CountSum(_, _, _)
CountSum(evals, field, i) ==
    IF i > Len(evals) THEN 0
    ELSE (IF evals[i].rc THEN evals[i][field] ELSE 0) + CountSum(evals, field, i + 1)

\* the entries of a PolicyEvaluation that stand for evaluation i as a whole
GenericEntriesOf(result, i) ==
    {k \in 1..Len(result.failedPolicies) :
        result.failedPolicies[k].name = "policy-eval-poleval-" \o ToString(i)}

\* the listing of the outcomes of evaluation ev was tried and failed
OutcomesFetchFailed(ev) ==
    ev.rc /\ (ev.mandatory > 0 \/ ev.advisory > 0) /\ ev.outcomesErr

CommentFailed ==
    \E i \in 1..Len(calls) : calls[i].name = "Comments.Create" /\ ~calls[i].ok

\* GetPolicyEvaluation has read the policy stage and its evaluations
ModernRetrievalDone ==
    /\ op = "evaluate"
    /\ pc = "done"
    /\ remote.reached
    /\ remote.path = "modern"
    /\ ~remote.fetch.stageReadErr

\* C18: the justification comment is created only directly after an override
\* call that succeeded, and when it fails the wait still runs and a completed
\* override is still returned as success; a failed listing of policy set
\* outcomes leaves GetPolicyEvaluation successful with the counts of all
\* evaluations summed, and adds one mandatory 'N mandatory policies failed'
\* entry for the evaluation exactly when its mandatory-failed count is
\* positive.
C18_BestEffortActionsNeverFail ==
    /\ op = "override" =>
          /\ \A i \in 1..Len(calls) :
                calls[i].name = "Comments.Create" =>
                    /\ i > 1
                    /\ calls[i - 1].name \in {"TaskStages.Override",
                                              "PolicyChecks.Override"}
                    /\ calls[i - 1].ok
          /\ CommentFailed =>
                /\ pc \in {"poll", "sleep"} \/ reads >= 1 \/ ret.err = CtxErr
                /\ ~ErrorsIs(ret.err, ApiErr("Comments.Create"))
                /\ \A st \in Range(OverrideCompleteStatuses) :
                      OverrideWaitRead(st) =>
                          ret.err = NilErr /\ ret.obj.finalStatus = st
    /\ ModernRetrievalDone =>
          LET evals == remote.fetch.evals
          IN  /\ ret.err = NilErr
              /\ ret.obj.passed = CountSum(evals, "passed", 1)
              /\ ret.obj.advisory = CountSum(evals, "advisory", 1)
              /\ ret.obj.mandatory = CountSum(evals, "mandatory", 1)
              /\ ret.obj.errored = CountSum(evals, "errored", 1)
              /\ ret.obj.total = ret.obj.passed + ret.obj.advisory
                                    + ret.obj.mandatory + ret.obj.errored
              /\ \A i \in 1..Len(evals) :
                    /\ Cardinality(GenericEntriesOf(ret.obj, i))
                          = IF OutcomesFetchFailed(evals[i]) /\ evals[i].mandatory > 0
                            THEN 1 ELSE 0
                    /\ \A k \in GenericEntriesOf(ret.obj, i) :
                          /\ ret.obj.failedPolicies[k].level = "mandatory"
                          /\ ret.obj.failedPolicies[k].description
                                = ToString(evals[i].mandatory)
                                      \o " mandatory policies failed"

C18_Witness ==
    /\ ModernRetrievalDone
    /\ Len(remote.fetch.evals) = 2
    /\ OutcomesFetchFailed(remote.fetch.evals[1])
    /\ remote.fetch.evals[1].mandatory = 0
    /\ OutcomesFetchFailed(remote.fetch.evals[2])
    /\ remote.fetch.evals[2].mandatory = 2
    /\ Len(ret.obj.failedPolicies) = 1
    /\ ret.err = NilErr

-----------------------------------------------------------------------------
\* Claims on the guards of CreateRun and of the discard command.

\* CreateRun found the workspace locked, or the configuration version
\* speculative, while the requested run is not plan-only
CreateRunRejected ==
    /\ op = "create"
    /\ ~options.planOnly
    /\ remote.locked \/ remote.cvSpeculative

\* C19: when the workspace is locked and the requested run is not plan-only,
\* or the configuration version given is speculative and the requested run is
\* not plan-only, CreateRun issues no Runs.Create, returns an error and no
\* run, and never reads a run.
C19_CreateRunRejectsLockedOrSpeculative ==
    CreateRunRejected =>
        /\ Issued(calls, "Runs.Create") = 0
        /\ \A i \in 1..Len(calls) :
              calls[i].name \in {"Workspaces.Read", "ConfigurationVersions.Read"}
        /\ pc = "done"
        /\ ret.obj = NilObj
        /\ ret.err = IF remote.locked
                     THEN ErrorString(<<"run has been specified as non-speculative and the workspace is currently locked">>)
                     ELSE ErrorString(<<"configuration version has been specified as speculative and cannot be used in non-speculative runs">>)
        /\ reads = 0
        /\ lastRead = NoRead

C19_Witness ==
    /\ CreateRunRejected
    /\ remote.cvSpeculative
    /\ ~remote.locked
    /\ Len(calls) = 2
    /\ pc = "done"
    /\ ret.err # NilErr

-----------------------------------------------------------------------------
\* The run discard command: DiscardRunCommand.Run reads the run, refuses a
\* run that cannot be discarded, and otherwise calls DiscardRun and reports.

\* the -run flag values the command is followed with
DiscardRunIDs == {"", "run-1"}

\* the statuses GetRun is answered with before the discard
DiscardGetRunStatuses == {"planned", "pending", "discarded"}

\* run.Actions as GetRun returns it: a nil pointer, or the flag IsDiscardable
RunActionSets == {"nil", "discardable", "not discardable"}

\* what the remote answers to the command's GetRun
DiscardGetRunAnswers ==
    {[err |-> TRUE, status |-> ""]}
        \cup {[err |-> FALSE, status |-> x] : x \in DiscardGetRunStatuses}

\* what the command has learnt of the remote: the answer of its GetRun
DiscardRemote(rd, actions) == [getRun |-> rd, actions |-> actions]

\* the way DiscardRunCommand.Run takes after GetRun, taking every run for
\* discardable
DiscardRunCommandPath_NoCheck(rd, actions) ==
    IF rd.err THEN "read error"
    ELSE IF actions = "nil" THEN "panic"
    ELSE "discard"

\* the way DiscardRunCommand.Run takes after GetRun: runErr != nil, then
\* !run.Actions.IsDiscardable, which dereferences run.Actions
DiscardRunCommandPath(rd, actions) ==
    IF rd.err THEN "read error"
    ELSE IF actions = "nil" THEN "panic"
    ELSE IF actions # "discardable" THEN "rejected"
    ELSE "discard"

\* the command ends after GetRun without calling the service
CommandStops(name, o, cs, rem, code, status, details) ==
    /\ pc' = "done"
    /\ options' = o
    /\ calls' = cs
    /\ remote' = rem
    /\ cmd' = [name |-> name, finished |-> TRUE, exit |-> code,
               status |-> status, run |-> details,
               out |-> IF status = "" THEN <<>>
                       ELSE CommandOutputs(status, details # NilObj)]
    /\ UNCHANGED <<op, run, runFlags, desiredStatus, backoff, ret, ctxDone,
                   lastObserved, scenPos, reads, lastRead, env, onceDone,
                   timeouts, wasReset, fnIn, fnOut>>

\* DiscardRunCommand.Run up to the return of DiscardRun
DiscardRunCommandRun ==
    /\ pc = "idle"
    /\ \E id \in DiscardRunIDs, rd \in DiscardGetRunAnswers,
          actions \in RunActionSets, failed \in BOOLEAN :
         LET o == [runID |-> id]
             read == Log(<<"Runs.ReadWithOptions">>, rd.err)
             path == DiscardRunCommandPath(rd, actions)
         IN  IF id = ""
             THEN CommandReturnsEarly("run discard", o, 1)
             ELSE IF path = "read error"
             THEN CommandStops("run discard", o, read, DiscardRemote(rd, actions),
                               1, "Error", NilObj)
             ELSE IF path = "panic"
             THEN CommandStops("run discard", o, read, DiscardRemote(rd, actions),
                               2, "", NilObj)
             ELSE IF path = "rejected"
             THEN CommandStops("run discard", o, read, DiscardRemote(rd, actions),
                               1, "Error", GetRun(rd))
             ELSE /\ op' = "discard"
                  /\ options' = o
                  /\ remote' = DiscardRemote(rd, actions)
                  /\ calls' = read \o Log(<<"Runs.Discard">>, failed)
                  /\ cmd' = [NoCmd EXCEPT !.name = "run discard", !.run = GetRun(rd)]
                  /\ IF failed
                     THEN ReturnEarly(NilObj, ApiErr("Runs.Discard"))
                     ELSE EnterLoop(NilObj, <<"discarded">>)
                  /\ UNCHANGED <<runFlags, lastObserved, ctxDone, scenPos, reads,
                                 lastRead, env, wasReset, fnIn, fnOut>>

\* DiscardRunCommand.Run from the return of DiscardRun: run is replaced by
\* latestRun unless that is nil
DiscardRunCommandExit ==
    CommandFinishes("run discard",
                    IF ret.err # NilErr THEN 1 ELSE 0,
                    resolveStatus(ret.err),
                    IF ret.obj # NilObj THEN ret.obj ELSE cmd.run)

\* The run apply, run cancel, workspace output commands, and the parse of the
\* flags every command starts with.

\* the commands followed
CommandNames ==
    {"run apply", "run discard", "run cancel", "workspace output",
     "policy override"}

\* what the remote answers to the GetRun of the apply and cancel commands
CommandGetRunAnswers ==
    {[err |-> TRUE, status |-> ""]}
        \cup {[err |-> FALSE, status |-> x] :
                 x \in {"planned", "planned_and_finished", "applying"}}

\* run.Actions as GetRun returns it: a nil pointer, or the flag the command
\* looks at (IsConfirmable, IsCancelable, IsForceCancelable) set or not
ActionFlagSets == {"nil", "allowed", "not allowed"}

\* setupCmd (the flag parse of ApplyRunCommand.Run alike): the flags do not
\* parse
CommandFlagsFail ==
    /\ pc = "idle"
    /\ \E name \in CommandNames : CommandReturnsEarly(name, NoOptions, 1)

\* the command calls the run service operation: the mutating call, then the
\* loop
CommandCallsRunService(name, operation, o, cs, rem, details, call, failed, desired) ==
    /\ op' = operation
    /\ options' = o
    /\ remote' = rem
    /\ calls' = cs \o Log(<<call>>, failed)
    /\ cmd' = [NoCmd EXCEPT !.name = name, !.run = details]
    /\ IF failed
       THEN ReturnEarly(NilObj, ApiErr(call))
       ELSE EnterLoop(NilObj, desired)
    /\ UNCHANGED <<runFlags, lastObserved, ctxDone, scenPos, reads, lastRead,
                   env, wasReset, fnIn, fnOut>>

\* ApplyRunCommand.Run after GetRun with a run that is planned and finished
\* reported as an error
ApplyRunCommandStop_NoopIsError(rd, actions) ==
    IF rd.err
    THEN [path |-> "read error", code |-> 1, status |-> "Error", details |-> NilObj]
    ELSE IF actions = "nil"
    THEN [path |-> "panic", code |-> 2, status |-> "", details |-> NilObj]
    ELSE IF actions # "allowed"
    THEN IF rd.status = "planned_and_finished"
         THEN [path |-> "noop", code |-> 1, status |-> "Noop", details |-> GetRun(rd)]
         ELSE [path |-> "rejected", code |-> 1, status |-> "Error",
               details |-> GetRun(rd)]
    ELSE [path |-> "call", code |-> 0, status |-> "", details |-> GetRun(rd)]

\* ApplyRunCommand.Run after GetRun: runErr != nil, then
\* !run.Actions.IsConfirmable, which dereferences run.Actions, with Noop for a
\* run that is planned and finished
ApplyRunCommandStop(rd, actions) ==
    IF rd.err
    THEN [path |-> "read error", code |-> 1, status |-> "Error", details |-> NilObj]
    ELSE IF actions = "nil"
    THEN [path |-> "panic", code |-> 2, status |-> "", details |-> NilObj]
    ELSE IF actions # "allowed"
    THEN IF rd.status = "planned_and_finished"
         THEN [path |-> "noop", code |-> 0, status |-> "Noop", details |-> GetRun(rd)]
         ELSE [path |-> "rejected", code |-> 1, status |-> "Error",
               details |-> GetRun(rd)]
    ELSE [path |-> "call", code |-> 0, status |-> "", details |-> GetRun(rd)]

\* CancelRunCommand.Run after GetRun: runErr != nil, then the flag of
\* run.Actions that goes with ForceCancel
CancelRunCommandStop(rd, actions) ==
    IF rd.err
    THEN [path |-> "read error", code |-> 1, status |-> "Error", details |-> NilObj]
    ELSE IF actions = "nil"
    THEN [path |-> "panic", code |-> 2, status |-> "", details |-> NilObj]
    ELSE IF actions # "allowed"
    THEN [path |-> "rejected", code |-> 1, status |-> "Error", details |-> GetRun(rd)]
    ELSE [path |-> "call", code |-> 0, status |-> "", details |-> GetRun(rd)]

\* ApplyRunCommand.Run up to the return of ApplyRun
ApplyRunCommandRun ==
    /\ pc = "idle"
    /\ \E id \in DiscardRunIDs, rd \in CommandGetRunAnswers,
          actions \in ActionFlagSets, failed \in BOOLEAN :
         LET o == [runID |-> id]
             read == Log(<<"Runs.ReadWithOptions">>, rd.err)
             stop == ApplyRunCommandStop(rd, actions)
         IN  IF id = ""
             THEN CommandReturnsEarly("run apply", o, 1)
             ELSE IF stop.path # "call"
             THEN CommandStops("run apply", o, read, DiscardRemote(rd, actions),
                               stop.code, stop.status, stop.details)
             ELSE CommandCallsRunService("run apply", "apply", o, read,
                                         DiscardRemote(rd, actions), stop.details,
                                         "Runs.Apply", failed, <<"applied">>)

\* the command reports the run service operation that returned: run is
\* replaced by latestRun unless that is nil
RunCommandExit(name) ==
    CommandFinishes(name,
                    IF ret.err # NilErr THEN 1 ELSE 0,
                    resolveStatus(ret.err),
                    IF ret.obj # NilObj THEN ret.obj ELSE cmd.run)

\* ApplyRunCommand.Run from the return of ApplyRun
ApplyRunCommandExit == RunCommandExit("run apply")

\* CancelRunCommand.Run up to the return of CancelRun
CancelRunCommandRun ==
    /\ pc = "idle"
    /\ \E id \in DiscardRunIDs, rd \in CommandGetRunAnswers,
          actions \in ActionFlagSets, failed \in BOOLEAN, force \in BOOLEAN :
         LET o == [runID |-> id, forceCancel |-> force]
             read == Log(<<"Runs.ReadWithOptions">>, rd.err)
             stop == CancelRunCommandStop(rd, actions)
         IN  IF id = ""
             THEN CommandReturnsEarly("run cancel", o, 1)
             ELSE IF stop.path # "call"
             THEN CommandStops("run cancel", o, read, DiscardRemote(rd, actions),
                               stop.code, stop.status, stop.details)
             ELSE CommandCallsRunService("run cancel", "cancel", o, read,
                                         DiscardRemote(rd, actions), stop.details,
                                         IF force THEN "Runs.ForceCancel"
                                         ELSE "Runs.Cancel",
                                         failed, <<"canceled">>)

\* CancelRunCommand.Run from the return of CancelRun
CancelRunCommandExit == RunCommandExit("run cancel")

\* WorkspaceOutputCommand.Run up to the return of ReadStateOutputs
WorkspaceOutputCommandRun ==
    \E ws \in {"", "ws-1"} :
        IF ws = ""
        THEN /\ pc = "idle"
             /\ CommandReturnsEarly("workspace output", NoOptions, 1)
        ELSE /\ ReadStateOutputsCall
             /\ CommandCalls("workspace output")

\* WorkspaceOutputCommand.Run from the return of ReadStateOutputs; a panic of
\* ReadStateOutputs ends the process before anything is put out
WorkspaceOutputCommandExit ==
    IF ret.err = PanicErr
    THEN CommandFinishes("workspace output", 2, "", NilObj)
    ELSE CommandFinishes("workspace output",
                         IF ret.err # NilErr THEN 1 ELSE 0,
                         resolveStatus(ret.err), ret.obj)

NextCommand ==
    \/ CommandFlagsFail
    \/ DiscardRunCommandRun
    \/ DiscardRunCommandExit
    \/ ApplyRunCommandRun
    \/ ApplyRunCommandExit
    \/ CancelRunCommandRun
    \/ CancelRunCommandExit
    \/ WorkspaceOutputCommandRun
    \/ WorkspaceOutputCommandExit
    \/ PolicyOverrideCommandRun
    \/ PolicyOverrideCommandExit
    \/ Poll
    \/ Wake
    \/ SleepCancelled
    \/ CtxCancel

SpecCommand == Init /\ [][NextCommand]_vars

\* the command's GetRun returned a run whose Actions.IsDiscardable is false
NotDiscardableRead ==
    /\ cmd.name = "run discard"
    /\ Len(calls) > 0
    /\ ~remote.getRun.err
    /\ remote.actions = "not discardable"

\* C20: for a run whose Actions.IsDiscardable flag is false the run discard
\* command issues no Runs.Discard (it only reads the run), reports status
\* Error with the details of the run it read, and exits with code 1.
C20_NotDiscardableRunIsNeverDiscarded ==
    NotDiscardableRead =>
        /\ Issued(calls, "Runs.Discard") = 0
        /\ calls = Log(<<"Runs.ReadWithOptions">>, FALSE)
        /\ op = "none"
        /\ reads = 0
        /\ cmd.finished
        /\ cmd.exit = 1
        /\ cmd.status = "Error"
        /\ cmd.run = RunObj(remote.getRun.status)

C20_Witness ==
    /\ NotDiscardableRead
    /\ remote.getRun.status = "planned"
    /\ cmd.finished
    /\ cmd.exit = 1
    /\ cmd.run = RunObj("planned")

-----------------------------------------------------------------------------
\* Claims on the polling loops of the workspace and configuration version
\* services, on cancellation and on termination.

\* the positions of the log at which call `name` was issued
CallsOf(name) == {i \in 1..Len(calls) : calls[i].name = name}

\* C21: ReadStateOutputs reads the state version outputs only after a read of
\* the current state version reported it processed: the outputs are read at
\* most once, as the last call, directly after a successful state version
\* read, and the state version last read is processed; a processed read ends
\* the re-reading; a return after an unprocessed read is an error; and when
\* the outputs read succeeds the operation returns its list without error.
C21_OutputsReadOnlyAfterProcessed ==
    op = "outputs" =>
        /\ Cardinality(CallsOf("StateVersionOutputs.ReadCurrent")) <= 1
        /\ \A i \in CallsOf("StateVersionOutputs.ReadCurrent") :
              /\ i = Len(calls)
              /\ i > 2
              /\ calls[i - 1] = [name |-> "StateVersions.ReadCurrent", ok |-> TRUE]
              /\ lastObserved = SvObj("processed")
              /\ pc = "done"
              /\ ret = IF calls[i].ok
                       THEN [obj |-> SvoList, err |-> NilErr]
                       ELSE [obj |-> NilObj,
                             err |-> ApiErr("StateVersionOutputs.ReadCurrent")]
        /\ lastObserved = SvObj("processed") =>
              Cardinality(CallsOf("StateVersionOutputs.ReadCurrent")) = 1
        /\ Cardinality(CallsOf("StateVersions.ReadCurrent"))
              = IF Len(calls) >= 2 /\ calls[2].name = "StateVersions.ReadCurrent"
                THEN reads + 1 ELSE 0
        /\ (pc = "done" /\ lastObserved = SvObj("unprocessed")) =>
              /\ ret.obj = NilObj
              /\ ret.err \in {newRetryTimeoutError("workspace output list"),
                              CtxErr, PanicErr}
        /\ (pc = "done" /\ ret.err = NilErr) => ret.obj = SvoList

C21_Witness ==
    /\ op = "outputs"
    /\ pc = "done"
    /\ reads = 3
    /\ Cardinality(CallsOf("StateVersions.ReadCurrent")) = 4
    /\ lastObserved = SvObj("processed")
    /\ ret = [obj |-> SvoList, err |-> NilErr]

\* UploadConfig has polled and the last poll read was answered with status st
UploadPollRead(st) ==
    /\ op = "upload"
    /\ reads >= 1
    /\ ~lastRead.err
    /\ lastRead.status = st

\* C22: UploadConfig polls the configuration version until it reads the
\* status uploaded or errored; either ends the loop at once and returns the
\* configuration version just read with a nil error; any other status is
\* retried, so that a return after it is the timeout or the context's error
\* with the configuration version as created; and a nil error is returned
\* only after such a terminal read.
C22_UploadTerminalStatuses ==
    /\ \A st \in {"uploaded", "errored"} :
          UploadPollRead(st) =>
              /\ pc = "done"
              /\ ret = [obj |-> CvObj(st), err |-> NilErr]
              /\ calls[Len(calls)] = [name |-> "ConfigurationVersions.Read",
                                      ok |-> TRUE]
    /\ \A st \in ConfigurationStatuses \ {"uploaded", "errored"} :
          UploadPollRead(st) =>
              \/ pc \in {"poll", "sleep"}
              \/ /\ pc = "done"
                 /\ ret.obj = CvObj("pending")
                 /\ ret.err \in {newRetryTimeoutError("upload configuration"), CtxErr}
    /\ (op = "upload" /\ pc = "done" /\ ret.err = NilErr) =>
          \E st \in {"uploaded", "errored"} : UploadPollRead(st)

C22_Witness ==
    /\ UploadPollRead("errored")
    /\ reads = 3
    /\ pc = "done"
    /\ ret = [obj |-> CvObj("errored"), err |-> NilErr]

-----------------------------------------------------------------------------
\* The polling loops against a remote that never reaches a status the loop
\* ends on and never fails a read.

MaxPendingReads == 100

\* a status every retry function of operation o answers with a retryable error
PendingStatus(o) ==
    CASE o \in RunOps -> "planning"
      [] o = "upload" -> "pending"
      [] o = "outputs" -> "unprocessed"
      [] o = "override" -> PostPlanAwaitingDecision
      [] o = "evaluate" -> "planning"
      [] OTHER -> ""

PendingOutcomes(o) == {[err |-> FALSE, status |-> PendingStatus(o)]}

\* an iteration of retry.Do against the remote that stays pending
PollPending == PollWith(PendingOutcomes(op), MaxPendingReads)

\* the operations up to the end of their loops; the retrieval that follows a
\* completed wait of GetPolicyEvaluation is no part of a loop
NextTermination ==
    \/ CreateRun
    \/ ApplyRun
    \/ DiscardRun
    \/ CancelRun
    \/ UploadConfig
    \/ ReadStateOutputs
    \/ OverridePolicy
    \/ GetPolicyEvaluation
    \/ PollPending
    \/ Wake

\* TF_MAX_TIMEOUT of the processes the loops are followed to their end in
TerminationEnvValues == {<<"5", "s">>, <<"1", "m", "3", "0", "s">>}

InitTermination ==
    /\ pc = "idle"
    /\ op = "none"
    /\ options = NoOptions
    /\ run = NilObj
    /\ runFlags = NoFlags
    /\ desiredStatus = <<>>
    /\ backoff = NoBackoff
    /\ ret = NoRet
    /\ calls = <<>>
    /\ ctxDone = FALSE
    /\ lastObserved = NilObj
    /\ scenPos = 0
    /\ reads = 0
    /\ lastRead = NoRead
    /\ remote = NoRemote
    /\ env \in TerminationEnvValues
    /\ onceDone = FALSE
    /\ timeouts = <<>>
    /\ wasReset = FALSE
    /\ fnIn = NoFn
    /\ fnOut = NoFnOut
    /\ cmd = NoCmd

\* retry.Do runs on: a read returns and a timer fires
SpecTermination ==
    /\ InitTermination
    /\ [][NextTermination]_vars
    /\ WF_vars(PollPending)
    /\ WF_vars(Wake)

\* the maximum duration of the loop the operation is in
LoopMaxDuration ==
    CASE op \in RunOps \cup {"upload"} -> timeouts[Len(timeouts)]
      [] op = "outputs" -> StateVersionOutputMaxDuration
      [] op \in {"override", "evaluate"} -> PolicyWaitMaxDuration

\* C24: every polling loop terminates: against a remote that stays in a
\* pending status and never fails a read, a loop that has started ends, it
\* ends with an error, and it ends when the time left of its maximum duration
\* (Timeout(), 5 minutes for the workspace outputs, 30 minutes for the policy
\* waits) is used up; while it runs the time left is within that maximum.
C24_EveryPollingLoopTerminates ==
    /\ [](pc \in {"poll", "sleep"} =>
            backoff.remaining >= 0 /\ backoff.remaining <= LoopMaxDuration)
    /\ []((pc = "done" /\ reads >= 1) =>
            ret.err # NilErr /\ backoff.remaining = 0)
    /\ (pc \in {"poll", "sleep"}) ~> (pc = "done")

C24_Witness ==
    /\ op = "outputs"
    /\ pc = "done"
    /\ reads > 40
    /\ backoff.remaining = 0
    /\ ret.err = newRetryTimeoutError("workspace output list")

-----------------------------------------------------------------------------
\* Claims on the status slices and on the records of the policy service.

\* C25: the desired slice and the noop slice of an operation share no status:
\* every slice getDesiredRunStatus returns against NoopStatus for create,
\* applied against NoopStatus for apply, discarded against DiscardNoopStatus
\* for discard and canceled against CancelNoopStatus for cancel; so a status
\* classified against them is never both a success and a failure.
C25_DesiredAndNoopDisjoint ==
    /\ fnOut.gotDesired => Range(fnOut.desired) \cap Range(NoopStatus) = {}
    /\ fnIn.pair \in RunOps =>
          /\ Range(PairDesired(fnIn.pair, fnIn.flags))
                \cap Range(PairNoop(fnIn.pair)) = {}
          /\ fnOut.nCalls >= 1 =>
                /\ fnIn.status \in Range(PairDesired(fnIn.pair, fnIn.flags))
                      => fnOut.first = [done |-> TRUE, err |-> NilErr]
                /\ fnIn.status \in Range(PairNoop(fnIn.pair))
                      => fnOut.first.done /\ fnOut.first.err # NilErr

C25_Witness ==
    /\ fnIn.pair = "create"
    /\ fnOut.gotDesired
    /\ fnOut.nCalls >= 1
    /\ ~fnIn.flags.planOnly /\ ~fnIn.flags.autoApply /\ fnIn.flags.policyChecks
    /\ Range(fnOut.desired) = Range(PairDesired(fnIn.pair, fnIn.flags))
    /\ "policy_override" \in Range(fnOut.desired)
    /\ fnIn.status = PostPlanAwaitingDecision
    /\ fnOut.first.done
    /\ fnOut.first.err # NilErr

\* GetPolicyEvaluation has returned the record built from the policy check
LegacyRetrievalDone ==
    /\ op = "evaluate"
    /\ pc = "done"
    /\ remote.reached
    /\ remote.path = "legacy"
    /\ ret.err = NilErr

\* C26: on the legacy path the record returned carries the counts of the
\* run's first policy check, passed = Passed, advisory failed = SoftFailed +
\* AdvisoryFailed, mandatory failed = HardFailed, and for every policy check
\* an errored count of 1 if the status of the check is errored and of 0
\* otherwise.
C26_LegacyCountsFromFirstPolicyCheck ==
    LegacyRetrievalDone =>
        LET check == remote.fetch.check
        IN  /\ ret.obj.checkID = "polchk-1"
            /\ ret.obj.stageID = ""
            /\ check.result =>
                  /\ ret.obj.passed = check.passed
                  /\ ret.obj.advisory = check.softFailed + check.advisoryFailed
                  /\ ret.obj.mandatory = check.hardFailed
            /\ ret.obj.errored = IF check.status = "errored" THEN 1 ELSE 0

-----------------------------------------------------------------------------
\* The records of the policy service and their Validate methods, applied to
\* records drawn from small sets of field values.

ErrPolicyIDRequired ==
    ErrorString(<<"either PolicyStageID or PolicyCheckID must be set">>)

ErrPolicyIDMutualExclusive ==
    ErrorString(<<"PolicyStageID and PolicyCheckID are mutually exclusive">>)

ErrInvalidPolicyStageID == ErrorString(<<"invalid policy stage ID format">>)

ErrInvalidPolicyCheckID == ErrorString(<<"invalid policy check ID format">>)

ErrNegativeCount == ErrorString(<<"counts must be non-negative">>)

ErrCountMismatch ==
    ErrorString(<<"total count does not match sum of individual counts">>)

ErrOverrideMismatch ==
    ErrorString(<<"RequiresOverride mismatch with MandatoryFailedCount">>)

ErrInvalidInitialStatus ==
    ErrorString(<<"invalid initial status for policy override">>)

ErrInvalidFinalStatus ==
    ErrorString(<<"invalid final status for policy override">>)

\* PolicyEvaluation.Validate without the check of RequiresOverride
PolicyEvaluationValidate_NoOverrideCheck(pe) ==
    IF ~validStringID(pe.runID) THEN ErrInvalidRunID
    ELSE IF pe.stageID = <<>> /\ pe.checkID = <<>> THEN ErrPolicyIDRequired
    ELSE IF pe.stageID # <<>> /\ pe.checkID # <<>> THEN ErrPolicyIDMutualExclusive
    ELSE IF pe.stageID # <<>> /\ ~validStringID(pe.stageID) THEN ErrInvalidPolicyStageID
    ELSE IF pe.checkID # <<>> /\ ~validStringID(pe.checkID) THEN ErrInvalidPolicyCheckID
    ELSE IF pe.total < 0 \/ pe.passed < 0 \/ pe.advisory < 0 \/ pe.mandatory < 0
            \/ pe.errored < 0
    THEN ErrNegativeCount
    ELSE IF pe.total # pe.passed + pe.advisory + pe.mandatory + pe.errored
    THEN ErrCountMismatch
    ELSE NilErr

\* PolicyEvaluation.Validate
PolicyEvaluationValidate(pe) ==
    IF ~validStringID(pe.runID) THEN ErrInvalidRunID
    ELSE IF pe.stageID = <<>> /\ pe.checkID = <<>> THEN ErrPolicyIDRequired
    ELSE IF pe.stageID # <<>> /\ pe.checkID # <<>> THEN ErrPolicyIDMutualExclusive
    ELSE IF pe.stageID # <<>> /\ ~validStringID(pe.stageID) THEN ErrInvalidPolicyStageID
    ELSE IF pe.checkID # <<>> /\ ~validStringID(pe.checkID) THEN ErrInvalidPolicyCheckID
    ELSE IF pe.total < 0 \/ pe.passed < 0 \/ pe.advisory < 0 \/ pe.mandatory < 0
            \/ pe.errored < 0
    THEN ErrNegativeCount
    ELSE IF pe.total # pe.passed + pe.advisory + pe.mandatory + pe.errored
    THEN ErrCountMismatch
    ELSE IF pe.requiresOverride # (pe.mandatory > 0) THEN ErrOverrideMismatch
    ELSE NilErr

\* the final statuses PolicyOverride.Validate allows
validFinalStatuses ==
    {"policy_override", "post_plan_completed", "apply_queued", "discarded", "errored"}

\* PolicyOverride.Validate accepting any initial status
PolicyOverrideValidate_AnyInitialStatus(po) ==
    IF ~validStringID(po.runID) THEN ErrInvalidRunID
    ELSE IF po.stageID = <<>> /\ po.checkID = <<>> THEN ErrPolicyIDRequired
    ELSE IF po.stageID # <<>> /\ po.checkID # <<>> THEN ErrPolicyIDMutualExclusive
    ELSE IF po.stageID # <<>> /\ ~validStringID(po.stageID) THEN ErrInvalidPolicyStageID
    ELSE IF po.checkID # <<>> /\ ~validStringID(po.checkID) THEN ErrInvalidPolicyCheckID
    ELSE IF po.justification = <<>> THEN ErrInvalidJustification
    ELSE IF po.finalStatus \notin validFinalStatuses THEN ErrInvalidFinalStatus
    ELSE NilErr

\* PolicyOverride.Validate
PolicyOverrideValidate(po) ==
    IF ~validStringID(po.runID) THEN ErrInvalidRunID
    ELSE IF po.stageID = <<>> /\ po.checkID = <<>> THEN ErrPolicyIDRequired
    ELSE IF po.stageID # <<>> /\ po.checkID # <<>> THEN ErrPolicyIDMutualExclusive
    ELSE IF po.stageID # <<>> /\ ~validStringID(po.stageID) THEN ErrInvalidPolicyStageID
    ELSE IF po.checkID # <<>> /\ ~validStringID(po.checkID) THEN ErrInvalidPolicyCheckID
    ELSE IF po.justification = <<>> THEN ErrInvalidJustification
    ELSE IF po.initialStatus # "post_plan_awaiting_decision"
    THEN ErrInvalidInitialStatus
    ELSE IF po.finalStatus \notin validFinalStatuses THEN ErrInvalidFinalStatus
    ELSE NilErr

\* the largest single count of the records validated
MaxCount == 1

\* field values of the records validated: ids that are empty, well formed and
\* malformed; counts from -1 on; statuses inside and outside the allowed ones
RecordRunIDs == {<<>>, <<"r", "u", "n", "-", "1">>}

PolicyStageIDs == {<<>>, <<"t", "s", "-", "1">>, <<"t", "s", "_", "1">>}

PolicyCheckIDs ==
    {<<>>, <<"p", "o", "l", "c", "h", "k", "-", "1">>, <<"P", "C", "-", "1">>}

CountValues == -1..MaxCount

TotalValues == -1..(4 * MaxCount)

PolicyEvaluationRecords ==
    [runID : RecordRunIDs, stageID : PolicyStageIDs, checkID : PolicyCheckIDs,
     total : TotalValues, passed : CountValues, advisory : CountValues,
     mandatory : CountValues, errored : CountValues, requiresOverride : BOOLEAN]

PolicyOverrideRecords ==
    [runID : RecordRunIDs, stageID : PolicyStageIDs, checkID : PolicyCheckIDs,
     justification : Justifications,
     initialStatus : {"post_plan_awaiting_decision", "planned", ""},
     finalStatus : validFinalStatuses \cup {"applied", ""}]

NoValidation == [called |-> FALSE, err |-> NilErr]

InitValidate ==
    /\ pc = "idle"
    /\ op = "none"
    /\ options = NoOptions
    /\ run = NilObj
    /\ runFlags = NoFlags
    /\ desiredStatus = <<>>
    /\ backoff = NoBackoff
    /\ ret = NoRet
    /\ calls = <<>>
    /\ ctxDone = FALSE
    /\ lastObserved = NilObj
    /\ scenPos = 0
    /\ reads = 0
    /\ lastRead = NoRead
    /\ remote = NoRemote
    /\ env = <<>>
    /\ onceDone = FALSE
    /\ timeouts = <<>>
    /\ wasReset = FALSE
    /\ fnIn \in {[kind |-> "evaluation", rec |-> r] : r \in PolicyEvaluationRecords}
                   \cup {[kind |-> "override", rec |-> r] : r \in PolicyOverrideRecords}
    /\ fnOut = NoValidation
    /\ cmd = NoCmd

\* pe.Validate() is called on the record
CallPolicyEvaluationValidate ==
    /\ fnIn.kind = "evaluation"
    /\ ~fnOut.called
    /\ fnOut' = [called |-> TRUE, err |-> PolicyEvaluationValidate(fnIn.rec)]
    /\ UNCHANGED <<driverVars, timeoutVars, fnIn, cmd>>

\* po.Validate() is called on the record
CallPolicyOverrideValidate ==
    /\ fnIn.kind = "override"
    /\ ~fnOut.called
    /\ fnOut' = [called |-> TRUE, err |-> PolicyOverrideValidate(fnIn.rec)]
    /\ UNCHANGED <<driverVars, timeoutVars, fnIn, cmd>>

NextValidate == CallPolicyEvaluationValidate \/ CallPolicyOverrideValidate

SpecValidate == InitValidate /\ [][NextValidate]_vars

\* Validate was called on a PolicyOverride record
OverrideValidated == fnIn.kind = "override" /\ fnOut.called

\* Validate was called on a PolicyEvaluation record
EvaluationValidated == fnIn.kind = "evaluation" /\ fnOut.called

\* C27: PolicyOverride.Validate rejects every record whose justification is
\* shorter than 10 characters, the empty one and any other.
C27_ShortJustificationRejected ==
    (OverrideValidated /\ Len(fnIn.rec.justification) < MinJustificationLength)
        => fnOut.err # NilErr

\* the ids of a record allow it to pass: the run id is well formed and
\* exactly one of the stage id and the check id is set, and well formed
RecordIDsValid(r) ==
    /\ validStringID(r.runID)
    /\ (r.stageID = <<>>) # (r.checkID = <<>>)
    /\ r.stageID # <<>> => validStringID(r.stageID)
    /\ r.checkID # <<>> => validStringID(r.checkID)

\* C28: PolicyOverride.Validate rejects every record whose initial status is
\* not post_plan_awaiting_decision, every record whose final status is outside
\* policy_override, post_plan_completed, apply_queued, discarded and errored,
\* and every record whose stage id and check id are both empty or both set;
\* with ids and justification in order the error names the status at fault.
C28_OverrideRecordStatusesAndIDs ==
    OverrideValidated =>
        LET po == fnIn.rec
        IN  /\ po.initialStatus # "post_plan_awaiting_decision" => fnOut.err # NilErr
            /\ po.finalStatus \notin {"policy_override", "post_plan_completed",
                                      "apply_queued", "discarded", "errored"}
                  => fnOut.err # NilErr
            /\ (po.stageID = <<>>) = (po.checkID = <<>>) =>
                  fnOut.err \in {ErrInvalidRunID, ErrPolicyIDRequired,
                                 ErrPolicyIDMutualExclusive}
            /\ (RecordIDsValid(po) /\ po.justification # <<>>) =>
                  fnOut.err =
                      IF po.initialStatus # "post_plan_awaiting_decision"
                      THEN ErrInvalidInitialStatus
                      ELSE IF po.finalStatus \notin
                                 {"policy_override", "post_plan_completed",
                                  "apply_queued", "discarded", "errored"}
                      THEN ErrInvalidFinalStatus
                      ELSE NilErr

C28_Witness ==
    /\ OverrideValidated
    /\ RecordIDsValid(fnIn.rec)
    /\ Len(fnIn.rec.justification) = 10
    /\ fnIn.rec.initialStatus = "planned"
    /\ fnIn.rec.finalStatus = "apply_queued"
    /\ fnOut.err = ErrInvalidInitialStatus

\* the errors PolicyEvaluation.Validate can return
PolicyEvaluationErrors ==
    {ErrInvalidRunID, ErrPolicyIDRequired, ErrPolicyIDMutualExclusive,
     ErrInvalidPolicyStageID, ErrInvalidPolicyCheckID, ErrNegativeCount,
     ErrCountMismatch, ErrOverrideMismatch}

\* C29: PolicyEvaluation.Validate answers every record with nil or one of
\* its validation errors; it rejects every record with a negative count, with
\* a total different from passed + advisory failed + mandatory failed +
\* errored, or with requires-override different from (mandatory failed > 0);
\* and it accepts a record with valid ids for which none of the three is the
\* case.
C29_EvaluationRecordCounts ==
    EvaluationValidated =>
        LET pe == fnIn.rec
            negative == pe.total < 0 \/ pe.passed < 0 \/ pe.advisory < 0
                           \/ pe.mandatory < 0 \/ pe.errored < 0
            mismatch == pe.total # pe.passed + pe.advisory + pe.mandatory + pe.errored
            override == pe.requiresOverride # (pe.mandatory > 0)
        IN  /\ fnOut.err \in PolicyEvaluationErrors \cup {NilErr}
            /\ negative => fnOut.err # NilErr
            /\ mismatch => fnOut.err # NilErr
            /\ override => fnOut.err # NilErr
            /\ RecordIDsValid(pe) =>
                  fnOut.err = IF negative THEN ErrNegativeCount
                              ELSE IF mismatch THEN ErrCountMismatch
                              ELSE IF override THEN ErrOverrideMismatch
                              ELSE NilErr

C29_Witness ==
    /\ EvaluationValidated
    /\ RecordIDsValid(fnIn.rec)
    /\ fnIn.rec.passed = 1 /\ fnIn.rec.advisory = 0
    /\ fnIn.rec.mandatory = 1 /\ fnIn.rec.errored = 0
    /\ fnIn.rec.total = 2
    /\ ~fnIn.rec.requiresOverride
    /\ fnOut.err = ErrOverrideMismatch

-----------------------------------------------------------------------------
\* Claim on Timeout() (specification SpecTimeout).

\* the seconds documented for a value of TF_MAX_TIMEOUT: the duration it
\* spells, the default of one hour when it is unset or spells none
DocumentedTimeout(e) ==
    CASE e = <<"5", "s">> -> 5
      [] e = <<"1", "m">> -> 60
      [] e = <<"1", "m", "3", "0", "s">> -> 90
      [] OTHER -> 60 * 60

-----------------------------------------------------------------------------
\* Claims on the records the policy service returns.

\* GetPolicyEvaluation has returned a record
EvaluationReturned ==
    /\ op = "evaluate"
    /\ pc = "done"
    /\ ret.err = NilErr

\* C31: every PolicyEvaluation GetPolicyEvaluation returns without error, on
\* either API, has non-negative counts, a total that is the sum of the passed,
\* advisory failed, mandatory failed and errored counts, requires an override
\* exactly when the mandatory failed count is positive, and carries exactly
\* one of the policy stage id and the policy check id; on the modern API each
\* count is the sum of that count over all the policy evaluations of the
\* stage, an evaluation without a result count adding nothing.
C31_ReturnedEvaluationCountsConsistent ==
    /\ EvaluationReturned =>
          /\ ret.obj.passed >= 0
          /\ ret.obj.advisory >= 0
          /\ ret.obj.mandatory >= 0
          /\ ret.obj.errored >= 0
          /\ ret.obj.total = ret.obj.passed + ret.obj.advisory
                                + ret.obj.mandatory + ret.obj.errored
          /\ ret.obj.requiresOverride = (ret.obj.mandatory > 0)
          /\ (ret.obj.stageID = "") # (ret.obj.checkID = "")
          /\ remote.path \in {"modern", "legacy"}
          /\ (remote.path = "modern") = (ret.obj.stageID # "")
    /\ (EvaluationReturned /\ remote.path = "modern") =>
          LET evals == remote.fetch.evals
          IN  /\ ret.obj.passed = CountSum(evals, "passed", 1)
              /\ ret.obj.advisory = CountSum(evals, "advisory", 1)
              /\ ret.obj.mandatory = CountSum(evals, "mandatory", 1)
              /\ ret.obj.errored = CountSum(evals, "errored", 1)

C31_Witness ==
    /\ EvaluationReturned
    /\ remote.path = "modern"
    /\ Len(remote.fetch.evals) = 2
    /\ ~remote.fetch.evals[1].rc
    /\ remote.fetch.evals[2].mandatory = 2
    /\ ret.obj.total = 3
    /\ ret.obj.requiresOverride

\* OverridePolicy has returned
OverrideEnded == op = "override" /\ pc = "done"

\* the override call of OverridePolicy was issued
OverrideSentToRemote ==
    \E i \in 1..Len(calls) :
        calls[i].name \in {"TaskStages.Override", "PolicyChecks.Override"}

\* C32: every PolicyOverride OverridePolicy returns without error has the
\* initial status post_plan_awaiting_decision, is complete, has a final status
\* of policy_override, post_plan_completed or apply_queued, the justification
\* of the options, and exactly one of the policy stage id and the policy check
\* id, that of the stage or check the override was sent to; and whenever
\* OverridePolicy fails it returns nil, never a record that is not complete.
C32_ReturnedOverrideRecord ==
    /\ (OverrideEnded /\ ret.err = NilErr) =>
          /\ OverrideSentToRemote
          /\ ret.obj.initialStatus = "post_plan_awaiting_decision"
          /\ ret.obj.overrideComplete
          /\ ret.obj.finalStatus \in {"policy_override", "post_plan_completed",
                                      "apply_queued"}
          /\ ret.obj.justification = options.justification
          /\ (ret.obj.stageID = "") # (ret.obj.checkID = "")
          /\ remote.path = "modern" =>
                /\ Issued(calls, "TaskStages.Override") = 1
                /\ \E i \in 1..Len(remote.stages) :
                      /\ remote.stages[i] \in {"pre_plan", "post_plan"}
                      /\ ret.obj.stageID = TaskStageID(i)
          /\ remote.path = "legacy" =>
                /\ Issued(calls, "PolicyChecks.Override") = 1
                /\ ret.obj.checkID = "polchk-1"
    /\ (OverrideEnded /\ ret.err # NilErr) => ret.obj = NilObj

C32_Witness ==
    /\ OverrideEnded
    /\ ret.err = NilErr
    /\ remote.path = "legacy"
    /\ reads = 2
    /\ ret.obj.finalStatus = "apply_queued"
    /\ ret.obj.checkID = "polchk-1"

-----------------------------------------------------------------------------
\* Claims on reads that lag behind or run ahead of the remote run.

\* statuses of a run that can still be discarded
DiscardableStatuses ==
    {"pending", "planned", "cost_estimated", "policy_checked", "policy_override"}

\* C33: DiscardRun tolerates a stale read: after the discard call was
\* accepted, a poll that still observes the status the run had before the
\* discard (planned, for one) leaves the loop polling, so that DiscardRun
\* returns success once the run is read as discarded.
C33_DiscardToleratesStaleRead ==
    (/\ op = "discard"
     /\ Issued(calls, "Runs.Discard") = 1
     /\ calls[1].ok
     /\ ObservedAny
     /\ lastRead.status \in DiscardableStatuses)
    => StillPolling

\* the wait of operation o last observed the run, successfully, in a status
\* of S: at its latest poll read, or at the first read of GetPolicyEvaluation
\* when no poll read was made yet
WaitLastObserved(o, S) ==
    /\ op = o
    /\ remote.reached
    /\ IF reads = 0
       THEN o = "evaluate" /\ ~remote.first.err /\ remote.first.status \in S
       ELSE ~lastRead.err /\ lastRead.status \in S

\* the wait gave up: the operation returned an error that is not the
\* cancellation of the context
WaitGaveUp == pc = "done" /\ ret.err # NilErr /\ ret.err # CtxErr

\* C34: a policy wait does not depend on observing a transient status: after
\* a successful override call, a wait that reads the run as applying or
\* applied does not give up with an error, and neither does the wait of
\* GetPolicyEvaluation for a run read as apply_queued, applying or applied:
\* neither polls until its budget is exhausted.
C34_PolicyWaitsTolerateAdvancedRun ==
    /\ WaitLastObserved("override", {"applying", "applied"}) => ~WaitGaveUp
    /\ (WaitLastObserved("evaluate", {"apply_queued", "applying", "applied"})
        /\ ~options.noWait)
          => ~WaitGaveUp

\* the statuses a run never leaves
RestingStatuses ==
    {"applied", "planned_and_finished", "errored", "discarded", "canceled",
     "force_canceled"}

\* C35: for ApplyRun, DiscardRun and CancelRun every status the run never
\* leaves is in the desired or in the noop slice of the operation: a poll that
\* reads such a status ends the loop, with success or with the error naming
\* the status, and never with a timeout; so CancelRun with ForceCancel ends
\* without timeout at a read of force_canceled.
C35_RestingStatusEndsLoop ==
    (/\ op \in {"apply", "discard", "cancel"}
     /\ ObservedAny
     /\ lastRead.status \in RestingStatuses)
    => /\ lastRead.status \in Range(desiredStatus) \cup Range(NoopOf(op))
       /\ pc = "done"
       /\ ret.err.type # "*cloud.RetryTimeoutError"

-----------------------------------------------------------------------------
\* Claims on the API generation and the stage the two services pick.

\* what OverridePolicy does, up to its wait, on the run GetPolicyEvaluation
\* has just retrieved: the same task stages and policy checks answered, the
\* run in post_plan_awaiting_decision, valid options and no failing call
OverrideOnSameRun ==
    LET o == CHOOSE x \in OverridePolicyOptionSets :
                 OverridePolicyOptionsValidate(x) = NilErr
        rd == CHOOSE x \in ReadOutcomes("override") :
                  ~x.err /\ x.status = PostPlanAwaitingDecision
    IN  OverridePolicyPrefix(o,
            [rd |-> rd, listErr |-> remote.fetch.listErr,
             stages |-> remote.fetch.stages, read2Err |-> remote.fetch.read2Err,
             nChecks |-> remote.fetch.nChecks, overrideErr |-> FALSE,
             commentErr |-> FALSE])

\* C36: GetPolicyEvaluation and OverridePolicy resolve the same API
\* generation for the same remote run: when GetPolicyEvaluation returns a
\* record with a policy check id, OverridePolicy on that run overrides that
\* policy check, and when it returns a record with a policy stage id,
\* OverridePolicy overrides that stage; a run with task stages none of which
\* is pre-plan or post-plan but with policy checks included.
C36_ServicesResolveSameGeneration ==
    EvaluationReturned =>
        LET pre == OverrideOnSameRun
        IN  /\ ret.obj.checkID # "" =>
                  /\ Issued(pre.calls, "PolicyChecks.Override") = 1
                  /\ pre.checkID = ret.obj.checkID
            /\ ret.obj.stageID # "" =>
                  /\ Issued(pre.calls, "TaskStages.Override") = 1
                  /\ pre.stageID = ret.obj.stageID

\* the list holds a pre-plan and a post-plan stage
BothPolicyStages(stages) ==
    /\ \E i \in 1..Len(stages) : stages[i] = "pre_plan"
    /\ \E i \in 1..Len(stages) : stages[i] = "post_plan"

\* the stage of the list that carries the id
StageWithID(stages, id) ==
    {stages[i] : i \in {j \in 1..Len(stages) : TaskStageID(j) = id}}

\* C37: for a run in post_plan_awaiting_decision with a pre-plan and a
\* post-plan task stage, OverridePolicy sends the override to the post-plan
\* stage and GetPolicyEvaluation reports the post-plan stage, in whatever
\* order the list returns the stages.
C37_PostPlanStageIsPicked ==
    /\ (/\ op = "override"
        /\ remote.reached
        /\ Issued(calls, "TaskStages.Override") = 1
        /\ BothPolicyStages(remote.stages))
          => StageWithID(remote.stages, remote.stageID) = {"post_plan"}
    /\ (/\ EvaluationReturned
        /\ remote.path = "modern"
        /\ lastObserved.status = PostPlanAwaitingDecision
        /\ BothPolicyStages(remote.fetch.stages))
          => StageWithID(remote.fetch.stages, ret.obj.stageID) = {"post_plan"}

-----------------------------------------------------------------------------
\* Claims on the wait of ReadStateOutputs and on the outputs of the commands.

\* C38: a failed read of the current state version during the wait of
\* ReadStateOutputs is surfaced as that error: the loop does not look into the
\* state version returned with an error (no nil dereference), does not take
\* the read for 'processed', and reads no outputs after it.
C38_FailedStateVersionReadIsSurfaced ==
    (op = "outputs" /\ reads >= 1 /\ lastRead.err) =>
        /\ pc = "done"
        /\ ret.err = ApiErr("StateVersions.ReadCurrent")
        /\ ret.obj = NilObj
        /\ CallsOf("StateVersionOutputs.ReadCurrent") = {}

\* the command ended in a panic, not by returning from Run: run.Actions was nil
\* where the command dereferences it, or ReadStateOutputs panicked
CommandPanicked ==
    \/ /\ cmd.name \in {"run apply", "run discard", "run cancel"}
       /\ calls = Log(<<"Runs.ReadWithOptions">>, FALSE)
       /\ remote.actions = "nil"
    \/ /\ cmd.name = "workspace output"
       /\ ret.err = PanicErr

\* the positions of the output log at which a call was made
OutputCalls(call, name) ==
    {i \in 1..Len(cmd.out) : cmd.out[i].call = call /\ cmd.out[i].name = name}

====
